---- MODULE Spec2Model ----
(***************************************************************************)
(* Adaptive vector routing: the two route executors (Simulator in          *)
(* simulator.py with routing_engine.py / topology_engine.py, and           *)
(* Simulation in avrs/simulation.py with avrs/routing.py), the node        *)
(* model, the topology builder of graph_builder.py and the termination     *)
(* oracle.                                                                 *)
(*                                                                         *)
(* Numbers.  Coordinates are integers counting grid steps of 1e-4 / 3, so  *)
(* that rounding a target to 4 decimals (the cache key) is rounding to a   *)
(* multiple of RoundUnit = 3 steps and never hits a rounding tie.          *)
(* Euclidean distances are compared through their squares (exact on        *)
(* integers; two distinct integer squared distances differ by far more     *)
(* than the 1e-10 tolerance of routing_engine.py).  Trust is counted in    *)
(* hundredths.  Scores are fixed point, in units of 1 / ScoreScale.        *)
(***************************************************************************)
EXTENDS Integers, Sequences, FiniteSets, TLC

\* ------------------------------------------------------------------------
\*  Bounds of the model
\* ------------------------------------------------------------------------
MaxRoutes == 2
MaxFaults == 2
MAX_HOPS == 3

\* ------------------------------------------------------------------------
\*  The network: node ids, fixed positions, roles, capacities
\* ------------------------------------------------------------------------
None == 0
NoRole == "none"
Nodes == 1 .. 4

Positions == << <<-3, 0>>, <<3, 0>>, <<-2, 2>>, <<0, 3>> >>
role == << "auth", "database", "auth", "database" >>
capacity == << 1, 2, 2, 1 >>
latency == << 10, 10, 400, 2000 >>

Targets == { <<1, 4>>, <<-1, 4>>, <<0, 1>>, <<1, -1>> }

RoundUnit == 3
ScoreScale == 10000000

\* ------------------------------------------------------------------------
\*  Vector kernel (vector_math.py, avrs/math_utils.py)
\* ------------------------------------------------------------------------
dot_product(v1, v2) == v1[1] * v2[1] + v1[2] * v2[2]

vector_subtract(v1, v2) == << v1[1] - v2[1], v1[2] - v2[2] >>

\* squared magnitude and squared Euclidean distance
Mag2(v) == dot_product(v, v)

Dist2(v1, v2) == Mag2(vector_subtract(v1, v2))

RECURSIVE ISqrtIter(_, _, _)
ISqrtIter(n, lo, hi) ==
    IF lo >= hi THEN lo
    ELSE LET mid == (lo + hi + 1) \div 2
         IN  IF mid * mid <= n THEN ISqrtIter(n, mid, hi)
                               ELSE ISqrtIter(n, lo, mid - 1)

\* floor of the square root
ISqrt(n) == ISqrtIter(n, 0, 20000)

\* magnitude and distance in hundredths of a grid step
magnitude(v) == ISqrt(Mag2(v) * 10000)

euclidean_distance(v1, v2) == ISqrt(Dist2(v1, v2) * 10000)

\* cosine similarity in units of 1e-4; 0 when either vector is zero
cosine_similarity(v1, v2) ==
    IF Mag2(v1) = 0 \/ Mag2(v2) = 0 THEN 0
    ELSE LET d == dot_product(v1, v2)
             s == ISqrt(Mag2(v1) * Mag2(v2) * 10000)
             q == ((IF d < 0 THEN -d ELSE d) * 1000000) \div s
         IN  IF d < 0 THEN -q ELSE q

\* cosine_similarity(v1, v2) > pct / 100, decided exactly
CosineAbove(v1, v2, pct) ==
    LET d == dot_product(v1, v2)
    IN  /\ Mag2(v1) # 0
        /\ Mag2(v2) # 0
        /\ d > 0
        /\ d * d * 10000 > pct * pct * Mag2(v1) * Mag2(v2)

\* tuple(round(v, 4) for v in target)
TargetKey(t) ==
    << ((t[1] + 1) \div RoundUnit) * RoundUnit,
       ((t[2] + 1) \div RoundUnit) * RoundUnit >>

CacheKeys == { TargetKey(t) : t \in Targets }

\* ------------------------------------------------------------------------
\*  Sequence helpers
\* ------------------------------------------------------------------------
Range(s) == { s[i] : i \in 1 .. Len(s) }

NoDup(s) == \A i, j \in 1 .. Len(s) : i # j => s[i] # s[j]

Min(a, b) == IF a <= b THEN a ELSE b

Max(a, b) == IF a >= b THEN a ELSE b

\* stable insertion of x before the first element with a strictly smaller
\* key: list.sort(key=..., reverse=True) keeps equal keys in list order
RECURSIVE InsertDesc(_, _, _)
InsertDesc(x, s, K) ==
    IF s = << >> THEN << x >>
    ELSE IF K[Head(s)] < K[x] THEN << x >> \o s
         ELSE << Head(s) >> \o InsertDesc(x, Tail(s), K)

RECURSIVE SortDescFrom(_, _, _)
SortDescFrom(s, acc, K) ==
    IF s = << >> THEN acc
    ELSE SortDescFrom(Tail(s), InsertDesc(Head(s), acc, K), K)

SortDesc(s, K) == SortDescFrom(s, << >>, K)

\* stable ascending sort: list.sort(key=...)
RECURSIVE InsertAsc(_, _, _)
InsertAsc(x, s, K) ==
    IF s = << >> THEN << x >>
    ELSE IF K[Head(s)] > K[x] THEN << x >> \o s
         ELSE << Head(s) >> \o InsertAsc(x, Tail(s), K)

RECURSIVE SortAscFrom(_, _, _)
SortAscFrom(s, acc, K) ==
    IF s = << >> THEN acc
    ELSE SortAscFrom(Tail(s), InsertAsc(Head(s), acc, K), K)

SortAsc(s, K) == SortAscFrom(s, << >>, K)

\* ------------------------------------------------------------------------
\*  State
\* ------------------------------------------------------------------------
VARIABLES
    impl,          \* which executor runs: "simulator" or "avrs"
    all_nodes,     \* the node list of the network
    topo_ops,      \* number of topology operations so far
    topo_last,     \* history: the last topology operation and its arguments
    obs_log,       \* Observability: max_history, the five history buffers,
                   \* node_load_samples, and the number of writes to each
    call,          \* the last call of a function on its own: name, arguments
                   \* and what it returned
    answer,        \* what has_reached_target last answered, or "unasked"
    neighbors,     \* Node.neighbors: node -> list of node ids
    alive,         \* Node.alive
    load,          \* Node.load
    trust,         \* Node.trust, in hundredths
    route_cache,   \* Node._route_cache: node -> (target key -> node id or None)
    pc,            \* "idle", "running", "returned" or "raised"
    request,       \* the request of the route in progress
    target_role,   \* local target_role of Simulation.route_request
    current,       \* local current of route_request
    visited,       \* local visited of route_request
    step,          \* loop variable of the hop loop
    result,        \* the RouteResult being built
    failed_before, \* history: nodes that failed before the route began
                   \* and have not recovered since
    routes,        \* number of route_request calls so far
    faults,        \* number of fail / recover commands so far
    trust_ops,     \* number of direct trust operations so far
    failure_counts, \* HealthMonitor._failure_counts (absent key = 0)
    streak,        \* history: probe failures of a node since its last
                   \* successful probe
    probes,        \* number of health probes so far
    last_probe,    \* history: node and outcome of the last probe, and the
                   \* node's streak before it
    observability, \* ObservabilitySink: total_requests, successful_routes,
                   \* failed_routes
    executors,     \* concurrent callers of Node.increment_load: where each
                   \* one is in `self.load += amount` and what it has read
    visits,        \* history: completed increment_load calls per node
    registry,      \* ClientRegistry._clients: client_id -> ClientRecord
    gateways,      \* the Gateway objects: alive, _nonce_cache,
                   \* _request_counts, _window_start
    clock,         \* time.time(), in seconds since the gateways were built
    forwarded,     \* the requests that gateways have signed and returned
    gw_last,       \* history: the last process_request or accept_request
                   \* call, its request and what it returned
    gw_history,    \* history: gateway operations so far, the (client_id,
                   \* nonce) pairs accepted so far, and the requests each
                   \* gateway accepted per client since its window began
    max_hops,      \* RoutingEngine.max_hops, Simulator.MAX_HOPS of avrs
    vector,        \* Node.vector: node -> position, fixed at construction
    semantic_nodes,  \* SemanticNode.alive and SemanticNode.load of each node
    semantic_pool,   \* SemanticPool._pools and SemanticPool._round_robin_idx
    pool_last,       \* history: the last selection call on the pool, its
                     \* arguments, the node it returned, and whether nodes
                     \* were overloaded when it chose
    monitor,         \* HealthMonitor._running and HealthMonitor._thread
    threads,         \* the _monitor_loop threads: where each one is, the
                     \* node it is checking and what its probe answered
    caller           \* the caller of start() and stop(): "idle", or
                     \* "joining" inside stop()

vars == << impl, all_nodes, topo_ops, topo_last, call, obs_log, answer, neighbors, alive, load, trust,
           route_cache, pc, request,
           target_role, current, visited, step, result, failed_before,
           routes, faults, trust_ops, failure_counts, streak, probes,
           last_probe, observability, executors, visits, registry,
           gateways, clock, forwarded, gw_last, gw_history, max_hops, vector,
           semantic_nodes, semantic_pool, pool_last, monitor, threads,
           caller >>

node_vars == << neighbors, alive, load, trust, route_cache >>

\* the history buffers of Observability
Buffers == { "routing_decisions", "route_metrics", "security_blocks",
             "failures", "reroutes" }

\* the max_history values tried
MaxHistories == { 1, 2 }

\* the default of max_history
DEFAULT_MAX_HISTORY == 1000

\* the nodes whose load is sampled
SampleNodes == { 1, 2 }

\* Observability.__init__: empty buffers of maxlen max_history
EmptyLog(m) ==
    [max_history |-> m,
     buffers |-> [b \in Buffers |-> << >>],
     written |-> [b \in Buffers |-> 0],
     node_load_samples |-> [n \in SampleNodes |-> << >>],
     sampled |-> [n \in SampleNodes |-> 0]]

\* threads that call Node.increment_load at the same time
Executors == {1, 2}

\* the clients registered in the ClientRegistry, and the gateways built
Clients == { "c1" }

GatewayIds == { "A", "B" }

\* rate_limit of the registered client (register_client's argument)
ClientRateLimit == 2

\* ClientRecord.trust_score starts at 1.0; kept in hundredths
CLIENT_TRUST_START == 100

\* signature_gateway = "" until a gateway signs
NoSignature == [key |-> "", data |-> ""]

NoRequest ==
    [client_id |-> "", gateway_id |-> "", timestamp |-> 0, nonce |-> "",
     payload |-> "", signature_client |-> NoSignature,
     signature_gateway |-> NoSignature, region |-> ""]

\* ClientRegistry after register_client(c, "A", ["eu"], ClientRateLimit)
\* and the gateways after Gateway.__init__ at time 0
GatewayStart ==
    /\ registry = [c \in Clients |->
                      [assigned_gateway_id |-> "A",
                       allowed_regions |-> { "eu" },
                       rate_limit |-> ClientRateLimit,
                       trust_score |-> CLIENT_TRUST_START]]
    /\ gateways = [g \in GatewayIds |->
                      [alive |-> TRUE,
                       nonce_cache |-> [c \in Clients |-> {}],
                       request_counts |-> [c \in Clients |-> 0],
                       window_start |-> 0]]
    /\ clock = 0
    /\ forwarded = {}
    /\ gw_last = [fn |-> "", gateway |-> "", req |-> NoRequest,
                  accepted |-> FALSE, reason |-> "", assigned |-> ""]
    /\ gw_history = [ops |-> 0, calls |-> 0, accepted |-> {},
                     in_window |-> [g \in GatewayIds |->
                                      [c \in Clients |-> 0]]]

\* state outside the route executors
monitor_vars == << failure_counts, streak, probes, last_probe >>

load_vars == << executors, visits >>

gateway_vars == << registry, gateways, clock, forwarded, gw_last, gw_history >>

\* ------------------------------------------------------------------------
\*  The semantic network (semantic_pool.py): ids, roles, positions
\* ------------------------------------------------------------------------
SemanticIds == 1 .. 4

semantic_role == << "auth", "auth", "auth", "proxy" >>

semantic_vector == << <<0, 0>>, <<1, 0>>, <<3, 3>>, <<0, 1>> >>

\* SemanticNode(..., overload_threshold=OverloadThreshold)
OverloadThreshold == 2

overload_threshold == [n \in SemanticIds |-> OverloadThreshold]

\* roles asked for; no node has the role "compute"
SemanticRoles == { "auth", "proxy", "compute" }

\* the nodes with role r, in the order of SemanticPool.nodes
RoleMembers(r) ==
    SelectSeq([i \in 1 .. 4 |-> i], LAMBDA n : semantic_role[n] = r)

\* no call yet; ops counts the operations on the pool and its nodes
NoSelection ==
    [fn |-> "", ops |-> 0, role |-> "", strategy |-> "", failed |-> None,
     candidates |-> << >>, selected |-> None, alive |-> FALSE,
     overloaded |-> FALSE, spare |-> FALSE, reason |-> ""]

\* the nodes as constructed, and SemanticPool.__init__ with _rebuild_pools
PoolStart ==
    /\ semantic_nodes = [n \in SemanticIds |-> [alive |-> TRUE, load |-> 0]]
    /\ semantic_pool = [_pools |-> [r \in SemanticRoles |-> RoleMembers(r)],
                        _round_robin_idx |-> [r \in SemanticRoles |-> 0]]
    /\ pool_last = NoSelection

pool_vars == << semantic_nodes, semantic_pool, pool_last >>

\* ------------------------------------------------------------------------
\*  The threads of HealthMonitor (avrs/health_monitor.py)
\* ------------------------------------------------------------------------
MaxThreads == 2

ThreadIds == 1 .. MaxThreads

NoThread == [pc |-> "unborn", idx |-> 0, health_ok |-> FALSE]

\* HealthMonitor.__init__
MonitorStart ==
    /\ monitor = [_running |-> FALSE, _thread |-> None]
    /\ threads = [th \in ThreadIds |-> NoThread]
    /\ caller = "idle"

thread_vars == << monitor, threads, caller >>

\* what the engine and the nodes were constructed with
engine_vars == << max_hops, vector >>

extra_vars == << engine_vars, pool_vars, thread_vars >>

aux_vars == << trust_ops, monitor_vars, load_vars, topo_last, call,
              obs_log, gateway_vars, extra_vars >>

side_vars == << all_nodes, topo_ops, answer, aux_vars, observability >>

AuxStart ==
    /\ trust_ops = 0
    /\ failure_counts = [n \in Nodes |-> 0]
    /\ streak = [n \in Nodes |-> 0]
    /\ probes = 0
    /\ last_probe = [node |-> None, outcome |-> "", streak_before |-> 0]
    /\ observability = [total_requests |-> 0, successful_routes |-> 0,
                        failed_routes |-> 0, total_reroutes |-> 0]
    /\ executors = [e \in Executors |-> [pc |-> "idle", node |-> None,
                                          read |-> 0]]
    /\ visits = [n \in Nodes |-> 0]
    /\ call = [fn |-> ""]
    /\ topo_last = [op |-> "", node |-> None, k |-> 0, added |-> 0,
                    dropped |-> 0]
    /\ GatewayStart
    /\ PoolStart
    /\ MonitorStart

AuxInitButLog ==
    /\ AuxStart
    /\ max_hops = MAX_HOPS
    /\ vector = Positions

AuxInit ==
    /\ AuxInitButLog
    /\ obs_log = EmptyLog(DEFAULT_MAX_HISTORY)

route_vars == << pc, request, target_role, current, visited, step, result,
                 failed_before, routes >>

\* ------------------------------------------------------------------------
\*  Node (graph_builder.py, avrs/node.py)
\* ------------------------------------------------------------------------
get_alive_neighbors(n) == SelectSeq(neighbors[n], LAMBDA m : alive[m])

is_at_capacity(n) == load[n] >= capacity[n]

get_cached_route(n, key) == route_cache[n][key]

\* ------------------------------------------------------------------------
\*  routing_engine.py: scoring, termination, next hop
\* ------------------------------------------------------------------------
ALPHA == 50
BETA == 30
GAMMA == 15
DELTA == 5
SIM_COSINE_THRESHOLD == 99
FACE_MAX_STEPS == 30
use_cache == TRUE
use_face_routing == TRUE

\* score = 0.5*cosine + 0.3*distance_gain - 0.15*load + 0.05*trust
SimScoreNeighbor(cur, nb, t) ==
    LET cosine == cosine_similarity(vector_subtract(t, vector[cur]),
                                    vector_subtract(vector[nb], vector[cur]))
        distance_gain == euclidean_distance(vector[cur], t)
                           - euclidean_distance(vector[nb], t)
        normalized_load == IF load[nb] > 0 THEN Min(load[nb], 20) ELSE 0
    IN  ALPHA * cosine * (ScoreScale \div 1000000)
        + (BETA * distance_gain * (ScoreScale \div 10000))
              \div (10000 * RoundUnit)
        - (GAMMA * normalized_load * (ScoreScale \div 100)) \div 20
        + DELTA * trust[nb] * (ScoreScale \div 10000)

\* alive neighbors, best score first
SimScoreAllNeighbors(cur, t) ==
    SortDesc(get_alive_neighbors(cur),
             [nb \in Nodes |-> SimScoreNeighbor(cur, nb, t)])

\* dist(a, t) < dist(b, t) - 1e-10
Closer(a, b, t) == Dist2(vector[a], t) < Dist2(vector[b], t)

SimHasReachedTargetStrict(cur, t) ==
    LET an == get_alive_neighbors(cur)
    IN  IF an # << >> /\ \A i \in 1 .. Len(an) : Closer(cur, an[i], t)
          THEN "local_minimum"
        ELSE IF an = << >> THEN "no_neighbors"
        ELSE IF CosineAbove(vector[cur], t, SIM_COSINE_THRESHOLD)
          THEN "high_similarity"
        ELSE ""

\* "" when routing goes on, else the termination reason
SimHasReachedTarget(cur, t) ==
    LET an == get_alive_neighbors(cur)
    IN  IF an # << >> /\ \A i \in 1 .. Len(an) : ~Closer(an[i], cur, t)
          THEN "local_minimum"
        ELSE IF an = << >> THEN "no_neighbors"
        ELSE IF CosineAbove(vector[cur], t, SIM_COSINE_THRESHOLD)
          THEN "high_similarity"
        ELSE ""

\* ------------------------------------------------------------------------
\*  topology_engine.py: face routing on the first two coordinates
\* ------------------------------------------------------------------------
Cross(u, v) == u[1] * v[2] - u[2] * v[1]

\* direction whose atan2 is taken; atan2(0, 0) = 0 is the direction (1, 0)
Dir(v) == IF v = <<0, 0>> THEN <<1, 0>> ELSE v

\* (angle(v) - angle(u)) mod 2 pi, as the direction v turned back by
\* angle(u); two such directions are compared by AngleLess
Relative(u, v) == << dot_product(Dir(u), Dir(v)), Cross(Dir(u), Dir(v)) >>

\* 0 for an angle in [0, pi), 1 for an angle in [pi, 2 pi)
HalfOf(w) == IF w[2] > 0 \/ (w[2] = 0 /\ w[1] > 0) THEN 0 ELSE 1

AngleLess(w1, w2) ==
    \/ HalfOf(w1) < HalfOf(w2)
    \/ HalfOf(w1) = HalfOf(w2) /\ Cross(w1, w2) > 0

\* first element of s with no element of strictly smaller angle
RECURSIVE FirstMinAngle(_, _, _)
FirstMinAngle(s, best, A) ==
    IF s = << >> THEN best
    ELSE IF best = None \/ AngleLess(A[Head(s)], A[best])
           THEN FirstMinAngle(Tail(s), Head(s), A)
           ELSE FirstMinAngle(Tail(s), best, A)

_angle_to_target(cur, nb, t) ==
    Relative(vector_subtract(t, vector[cur]),
             vector_subtract(vector[nb], vector[cur]))

face_route_step(cur, t, prev_node, visited_in_face) ==
    LET an == get_alive_neighbors(cur)
    IN  IF an = << >> THEN None
        ELSE IF prev_node = None
          THEN FirstMinAngle(
                 SelectSeq(an, LAMBDA nb : nb \notin visited_in_face), None,
                 [nb \in Nodes |-> _angle_to_target(cur, nb, t)])
          ELSE FirstMinAngle(
                 SelectSeq(an, LAMBDA nb : nb \notin visited_in_face
                                              \/ nb = prev_node), None,
                 [nb \in Nodes |->
                    Relative(vector_subtract(vector[prev_node], vector[cur]),
                             vector_subtract(vector[nb], vector[cur]))])

RECURSIVE FaceLoop(_, _, _, _, _, _)
FaceLoop(start, t, cur, prev, visited_in_face, steps_left) ==
    IF steps_left = 0 THEN None
    ELSE LET next_node == face_route_step(cur, t, prev, visited_in_face)
         IN  IF next_node = None THEN None
             ELSE IF Closer(next_node, start, t) THEN next_node
             ELSE IF next_node = start THEN None
             ELSE FaceLoop(start, t, next_node, cur,
                           visited_in_face \cup {next_node}, steps_left - 1)

\* a face routing that hands back the first node it steps to
face_route_first(start, t, max_face_steps) ==
    IF max_face_steps = 0 THEN None
    ELSE face_route_step(start, t, None, {start})

\* the node face routing found, or None
face_route_full(start, t, max_face_steps) ==
    FaceLoop(start, t, start, None, {start}, max_face_steps)

\* ------------------------------------------------------------------------
\*  routing_engine.py: RoutingEngine.select_next_hop
\* ------------------------------------------------------------------------
\* first element of s satisfying P, or None
RECURSIVE FirstWhere(_, _)
FirstWhere(s, P) ==
    IF s = << >> THEN None
    ELSE IF P[Head(s)] THEN Head(s)
    ELSE FirstWhere(Tail(s), P)

SimSelectNextHopAnyGreedy(cur, t, vis, cache_on) ==
    LET cached_id == IF cache_on THEN get_cached_route(cur, TargetKey(t))
                                 ELSE None
        hit == IF cached_id = None THEN None
               ELSE FirstWhere(get_alive_neighbors(cur),
                               [n \in Nodes |-> n = cached_id /\ n \notin vis])
        scored == SimScoreAllNeighbors(cur, t)
        greedy == FirstWhere(scored, [n \in Nodes |-> n \notin vis])
    IN  IF hit # None THEN [node |-> hit, method |-> "cache"]
        ELSE IF greedy # None THEN [node |-> greedy, method |-> "greedy"]
        ELSE [node |-> None, method |-> "none"]

\* the next hop and the method that found it
SimSelectNextHop(cur, t, vis, cache_on) ==
    LET cached_id == IF cache_on THEN get_cached_route(cur, TargetKey(t))
                                 ELSE None
        hit == IF cached_id = None THEN None
               ELSE FirstWhere(get_alive_neighbors(cur),
                               [n \in Nodes |-> n = cached_id /\ n \notin vis])
        scored == SimScoreAllNeighbors(cur, t)
        greedy == FirstWhere(scored,
                     [n \in Nodes |-> n \notin vis /\ Closer(n, cur, t)])
        fallback == FirstWhere(scored, [n \in Nodes |-> n \notin vis])
        face_node == IF use_face_routing
                       THEN face_route_full(cur, t, FACE_MAX_STEPS)
                       ELSE None
    IN  IF hit # None THEN [node |-> hit, method |-> "cache"]
        ELSE IF greedy # None THEN [node |-> greedy, method |-> "greedy"]
        ELSE IF fallback # None
          THEN [node |-> fallback, method |-> "fallback"]
        ELSE IF face_node # None THEN [node |-> face_node, method |-> "face"]
        ELSE [node |-> None, method |-> "none"]

\* ------------------------------------------------------------------------
\*  simulator.py: Simulator.route_request
\* ------------------------------------------------------------------------
EmptyResult(start) ==
    [ start_node_id |-> start, path |-> << >>, hops |-> << >>,
      success |-> FALSE, final_node_id |-> None, total_hops |-> 0,
      reroute_count |-> 0, face_route_count |-> 0, failures |-> << >> ]

\* lines 136-147: the call, up to the hop loop
SimStartRoute(start, t) ==
    /\ impl = "simulator"
    /\ pc # "running"
    /\ routes < MaxRoutes
    /\ routes' = routes + 1
    /\ pc' = "running"
    /\ request' = [target_vector |-> t, request_text |-> {}]
    /\ target_role' = NoRole
    /\ current' = start
    /\ visited' = {}
    /\ step' = 0
    /\ result' = EmptyResult(start)
    /\ failed_before' = { n \in Nodes : ~alive[n] }
    /\ UNCHANGED << impl, side_vars, node_vars, faults >>

\* the result after the for loop ran out (lines 223-228)
SimExhausted(res, cur) ==
    [res EXCEPT !.success = FALSE, !.final_node_id = cur,
                !.total_hops = max_hops]

\* for step in range(max_hops): is there an iteration numbered s
InRangeInclusive(s) == s <= max_hops

InRange(s) == s < max_hops

\* one iteration of the hop loop (lines 149-221); the iteration that uses
\* up range(max_hops) runs into the else branch of the loop
SimRouteStep ==
    /\ impl = "simulator"
    /\ pc = "running"
    /\ IF current \in visited
         THEN \* the assertion of line 151 fails: AssertionError
              /\ pc' = "raised"
              /\ UNCHANGED << impl, side_vars, node_vars, request, target_role, current,
                              visited, step, result, failed_before, routes,
                              faults >>
         ELSE LET t == request.target_vector
                  vis == visited \cup {current}
                  load1 == [load EXCEPT ![current] = @ + 1]
                  term_reason == SimHasReachedTarget(current, t)
                  sel == SimSelectNextHop(current, t, vis, use_cache)
                  res1 == [result EXCEPT !.path = Append(@, current)]
              IN  /\ visited' = vis
                  /\ load' = load1
                  /\ IF term_reason # ""
                       THEN /\ result' =
                                 [res1 EXCEPT
                                    !.hops = Append(@,
                                       [node_id |-> current,
                                        chosen_next |-> None,
                                        method |-> "",
                                        terminal_reason |-> term_reason,
                                        failure |-> FALSE]),
                                    !.success = TRUE,
                                    !.final_node_id = current,
                                    !.total_hops = step + 1]
                            /\ pc' = "returned"
                            /\ UNCHANGED << current, step, route_cache >>
                     ELSE IF sel.node = None
                       THEN /\ result' =
                                 [res1 EXCEPT
                                    !.hops = Append(@,
                                       [node_id |-> current,
                                        chosen_next |-> None,
                                        method |-> sel.method,
                                        terminal_reason |-> "",
                                        failure |-> TRUE]),
                                    !.success = FALSE,
                                    !.final_node_id = current,
                                    !.total_hops = step + 1]
                            /\ pc' = "returned"
                            /\ UNCHANGED << current, step, route_cache >>
                     ELSE LET res2 ==
                                 [res1 EXCEPT
                                    !.hops = Append(@,
                                       [node_id |-> current,
                                        chosen_next |-> sel.node,
                                        method |-> sel.method,
                                        terminal_reason |-> "",
                                        failure |-> FALSE]),
                                    !.reroute_count =
                                       IF sel.method \in {"fallback", "face"}
                                         THEN @ + 1 ELSE @,
                                    !.face_route_count =
                                       IF sel.method = "face"
                                         THEN @ + 1 ELSE @]
                          IN  /\ route_cache' =
                                   IF use_cache
                                     THEN [route_cache EXCEPT
                                             ![current][TargetKey(t)] =
                                                sel.node]
                                     ELSE route_cache
                              /\ current' = sel.node
                              /\ step' = step + 1
                              /\ IF InRange(step + 1)
                                   THEN /\ result' = res2
                                        /\ pc' = "running"
                                   ELSE /\ result' =
                                             SimExhausted(res2, sel.node)
                                        /\ pc' = "returned"
                  /\ UNCHANGED << impl, side_vars, neighbors, alive, trust, request,
                                  target_role, failed_before, routes, faults >>

\* ------------------------------------------------------------------------
\*  Operator commands: Node.fail, Node.recover
\* ------------------------------------------------------------------------
Fail(n) ==
    /\ alive[n]
    /\ faults < MaxFaults
    /\ alive' = [alive EXCEPT ![n] = FALSE]
    /\ faults' = faults + 1
    /\ UNCHANGED << impl, side_vars, neighbors, load, trust, route_cache, route_vars >>

\* graph_builder.Node.recover also clears the load; avrs Node.recover does not
Recover(n) ==
    /\ ~alive[n]
    /\ faults < MaxFaults
    /\ alive' = [alive EXCEPT ![n] = TRUE]
    /\ faults' = faults + 1
    /\ load' = IF impl = "simulator" THEN [load EXCEPT ![n] = 0] ELSE load
    /\ failed_before' = failed_before \ {n}
    /\ UNCHANGED << impl, side_vars, neighbors, trust, route_cache, pc, request,
                    target_role, current, visited, step, result, routes >>

\* ------------------------------------------------------------------------
\*  avrs/service_grouping.py
\* ------------------------------------------------------------------------
\* A request text is modelled by the set of keywords that occur in it.
RoleOrder == << "auth", "database", "compute", "vision", "storage", "proxy" >>

role_keywords ==
    [ auth |-> {"auth", "login", "authenticate", "token", "credential",
                "password"},
      database |-> {"database", "db", "query", "sql", "data", "store",
                    "persist"},
      compute |-> {"compute", "calculate", "process", "execute", "run",
                   "task"},
      vision |-> {"vision", "image", "visual", "detect", "recognize",
                  "camera"},
      storage |-> {"storage", "file", "upload", "download", "blob",
                   "object"},
      proxy |-> {"proxy", "forward", "route", "gateway", "redirect"} ]

RequestTexts ==
    { {}, {"login"}, {"query"}, {"run", "task"},
      {"auth", "database", "data"} }

RoleScore(text, r) == Cardinality(role_keywords[r] \cap text)

\* max(role_scores.items(), key=...) returns the first maximal entry
RECURSIVE FirstMaxRole(_, _, _)
FirstMaxRole(text, i, best) ==
    IF i > Len(RoleOrder) THEN best
    ELSE LET r == RoleOrder[i]
         IN  IF RoleScore(text, r) > 0
                /\ (best = NoRole \/ RoleScore(text, r) > RoleScore(text, best))
               THEN FirstMaxRole(text, i + 1, r)
               ELSE FirstMaxRole(text, i + 1, best)

determine_target_role(text) == FirstMaxRole(text, 1, NoRole)

\* a role counts as served while one of its nodes is alive
has_nodes_of_role(r) == \E n \in Nodes : role[n] = r

has_alive_nodes(r) == \E n \in Nodes : role[n] = r /\ alive[n]

\* ------------------------------------------------------------------------
\*  avrs/routing.py
\* ------------------------------------------------------------------------
SEMANTIC_WEIGHT == 50
TRUST_WEIGHT == 20
LOAD_PENALTY == 20
LATENCY_PENALTY == 10
AV_COSINE_THRESHOLD == 95

\* score = 0.5*semantic_similarity + 0.2*trust - 0.2*load_ratio
\*         - 0.1*normalized_latency
AvScoreNeighbor(nb, t) ==
    LET semantic_similarity == cosine_similarity(vector[nb], t)
        load_num == Min(capacity[nb], Max(0, load[nb]))
    IN  SEMANTIC_WEIGHT * semantic_similarity * (ScoreScale \div 1000000)
        + TRUST_WEIGHT * trust[nb] * (ScoreScale \div 10000)
        - (LOAD_PENALTY * load_num * (ScoreScale \div 100)) \div capacity[nb]
        - (LATENCY_PENALTY * Min(latency[nb], 1000) * (ScoreScale \div 100))
              \div 1000

AvScoreAllNeighborsNoCapacity(cur, t, trole) ==
    SortDesc(SelectSeq(get_alive_neighbors(cur),
                       LAMBDA n : trole = NoRole \/ role[n] = trole),
             [nb \in Nodes |-> AvScoreNeighbor(nb, t)])

\* alive neighbors of the role, below capacity, best score first
AvScoreAllNeighbors(cur, t, trole) ==
    SortDesc(SelectSeq(get_alive_neighbors(cur),
                       LAMBDA n : /\ trole = NoRole \/ role[n] = trole
                                  /\ ~is_at_capacity(n)),
             [nb \in Nodes |-> AvScoreNeighbor(nb, t)])

AvSelectNextHop(cur, t, trole, recent_nodes, cache_on) ==
    LET cached_id == IF cache_on THEN get_cached_route(cur, TargetKey(t))
                                 ELSE None
        hit == IF cached_id = None THEN None
               ELSE FirstWhere(get_alive_neighbors(cur),
                      [n \in Nodes |-> /\ n = cached_id
                                       /\ ~is_at_capacity(n)
                                       /\ trole = NoRole \/ role[n] = trole
                                       /\ n \notin recent_nodes])
        scored == AvScoreAllNeighbors(cur, t, trole)
        best_score == AvScoreNeighbor(scored[1], t)
        candidates == SelectSeq(scored,
                        LAMBDA n : AvScoreNeighbor(n, t) * 100
                                     >= best_score * 95)
        fresh == FirstWhere(candidates,
                            [n \in Nodes |-> n \notin recent_nodes])
    IN  IF hit # None THEN hit
        ELSE IF scored = << >> THEN None
        ELSE IF fresh # None THEN fresh
        ELSE scored[1]

AvHasReachedTarget(cur, t) ==
    LET an == get_alive_neighbors(cur)
    IN  \/ an # << >> /\ \A i \in 1 .. Len(an) : ~Closer(an[i], cur, t)
        \/ CosineAbove(vector[cur], t, AV_COSINE_THRESHOLD)

\* ------------------------------------------------------------------------
\*  avrs/trust_system.py
\* ------------------------------------------------------------------------
TRUST_DECREASE_FAILURE == 30
TRUST_INCREASE_SUCCESS == 5
TRUST_INCREASE_FAST == 2

record_success(tr, n, fast) ==
    [tr EXCEPT ![n] = Min(100, @ + TRUST_INCREASE_SUCCESS
                                 + (IF fast THEN TRUST_INCREASE_FAST ELSE 0))]

record_failure(tr, n) ==
    [tr EXCEPT ![n] = Max(0, @ - TRUST_DECREASE_FAILURE)]

\* ------------------------------------------------------------------------
\*  avrs/simulation.py: Simulation.route_request
\* ------------------------------------------------------------------------
\* lines 153-175: the call, up to the hop loop; a required role without an
\* alive node ends the call at once
AvStartRoute(start, t, text) ==
    /\ impl = "avrs"
    /\ pc # "running"
    /\ routes < MaxRoutes
    /\ routes' = routes + 1
    /\ request' = [target_vector |-> t, request_text |-> text]
    /\ target_role' = determine_target_role(text)
    /\ current' = start
    /\ visited' = {}
    /\ step' = 0
    /\ failed_before' = { n \in Nodes : ~alive[n] }
    /\ IF target_role' # NoRole /\ ~has_alive_nodes(target_role')
         THEN /\ result' = [EmptyResult(start) EXCEPT
                              !.success = FALSE,
                              !.final_node_id = start,
                              !.failures = Append(@, "section")]
              /\ pc' = "returned"
         ELSE /\ result' = EmptyResult(start)
              /\ pc' = "running"
    /\ UNCHANGED << impl, side_vars, node_vars, faults >>

\* ObservabilitySink.log_route_completion: the counters it moves
log_route_completion(obs, res) ==
    [obs EXCEPT !.total_requests = @ + 1,
                !.successful_routes = IF res.success THEN @ + 1 ELSE @,
                !.failed_routes = IF res.success THEN @ ELSE @ + 1,
                !.total_reroutes = @ + res.reroute_count]

\* Observability.log_reroute: the counter it moves
log_reroute(obs) == [obs EXCEPT !.total_reroutes = @ + 1]

\* the result after the for loop ran out (lines 311-316)
AvExhausted(res, cur) ==
    [res EXCEPT !.success = FALSE, !.final_node_id = cur,
                !.total_hops = max_hops]

\* lines 272-282: the selector's answer, replaced by the best scored
\* candidate not yet visited when the answer was already visited
AvNextNodeNoVisitedCheck(sel, scored, vis) == sel

AvNextNode(sel, scored, vis) ==
    IF sel # None /\ sel \in vis
      THEN FirstWhere(scored, [n \in Nodes |-> n \notin vis])
      ELSE sel

\* lines 192-194: the self-heal candidates
AvHealCandidates(cur, t, trole, vis) ==
    SelectSeq(AvScoreAllNeighbors(cur, t, trole), LAMBDA n : n \notin vis)

\* the log_reroute calls of one iteration on node cur (lines 188, 198): one
\* for the dead node, one more when a replacement was found
AvLogReroutes(obs, cur, t, r, vis) ==
    IF alive[cur] THEN obs
    ELSE IF AvHealCandidates(cur, t, r, vis) # << >>
      THEN log_reroute(log_reroute(obs))
    ELSE log_reroute(obs)

\* lines 253-257: the oracle's answer counts only inside the required role
AvTerminalAnyRole(cur, t, trole) == AvHasReachedTarget(cur, t)

AvTerminal(cur, t, trole) ==
    /\ AvHasReachedTarget(cur, t)
    /\ ~(trole # NoRole /\ role[cur] # trole)

\* one iteration of the hop loop (lines 177-309); the iteration that uses
\* up range(MAX_HOPS) runs into the else branch of the loop
AvRouteStep ==
    /\ impl = "avrs"
    /\ pc = "running"
    /\ LET t == request.target_vector
           vis == visited \cup {current}
           res1 == [result EXCEPT !.path = Append(@, current)]
       IN
       /\ visited' = vis
       /\ IF ~alive[current]
            THEN \* self-healing (lines 183-204)
                 LET res2 == [res1 EXCEPT
                                !.failures = Append(@, "node_failed"),
                                !.reroute_count = @ + 1]
                     scored == AvHealCandidates(current, t, target_role, vis)
                 IN  IF scored # << >>
                       THEN /\ current' = scored[1]
                            /\ step' = step + 1
                            /\ IF InRange(step + 1)
                                 THEN /\ result' = res2
                                      /\ pc' = "running"
                                      /\ trust' = trust
                                 ELSE /\ result' = AvExhausted(res2, scored[1])
                                      /\ pc' = "returned"
                                      /\ trust' = record_failure(trust,
                                                                 scored[1])
                            /\ UNCHANGED << load, route_cache >>
                       ELSE /\ result' = [res2 EXCEPT
                                            !.success = FALSE,
                                            !.final_node_id = current]
                            /\ pc' = "returned"
                            /\ UNCHANGED << current, step, load, trust,
                                            route_cache >>
            ELSE LET scored == AvScoreAllNeighbors(current, t, target_role)
                     sel == AvSelectNextHop(current, t, target_role, {},
                                            use_cache)
                     next_node == AvNextNode(sel, scored, vis)
                     hop == [node_id |-> current, chosen_next |-> None,
                             selected |-> None, is_terminal |-> FALSE,
                             failure |-> FALSE]
                 IN  /\ load' = [load EXCEPT ![current] = @ + 1]
                     /\ IF AvTerminal(current, t, target_role)
                          THEN /\ result' =
                                    [res1 EXCEPT
                                       !.hops = Append(@,
                                          [hop EXCEPT !.is_terminal = TRUE]),
                                       !.success = TRUE,
                                       !.final_node_id = current,
                                       !.total_hops = step + 1]
                               /\ \E fast \in BOOLEAN :
                                     trust' = record_success(trust, current,
                                                             fast)
                               /\ pc' = "returned"
                               /\ UNCHANGED << current, step, route_cache >>
                        ELSE IF next_node = None
                          THEN /\ result' =
                                    [res1 EXCEPT
                                       !.hops = Append(@,
                                          [hop EXCEPT !.failure = TRUE,
                                                      !.selected = sel]),
                                       !.success = FALSE,
                                       !.final_node_id = current,
                                       !.total_hops = step + 1]
                               /\ trust' = record_failure(trust, current)
                               /\ pc' = "returned"
                               /\ UNCHANGED << current, step, route_cache >>
                        ELSE LET res2 ==
                                    [res1 EXCEPT
                                       !.hops = Append(@,
                                          [hop EXCEPT
                                             !.chosen_next = next_node,
                                             !.selected = sel])]
                             IN  /\ route_cache' =
                                      [route_cache EXCEPT
                                         ![current][TargetKey(t)] = next_node]
                                 /\ current' = next_node
                                 /\ step' = step + 1
                                 /\ IF InRange(step + 1)
                                      THEN /\ result' = res2
                                           /\ pc' = "running"
                                           /\ trust' = trust
                                      ELSE /\ result' =
                                                AvExhausted(res2, next_node)
                                           /\ pc' = "returned"
                                           /\ trust' = record_failure(
                                                          trust, next_node)
       /\ LET logged == AvLogReroutes(observability, current, t,
                                      target_role, vis)
          IN  observability' = IF pc' = "returned"
                                 THEN log_route_completion(logged, result')
                                 ELSE logged
       /\ UNCHANGED << impl, all_nodes, topo_ops, answer, aux_vars, neighbors,
                       alive, request, target_role, failed_before, routes,
                       faults >>

\* ------------------------------------------------------------------------
\*  The routing system
\* ------------------------------------------------------------------------
Pairs == { e \in SUBSET Nodes : Cardinality(e) = 2 }

\* neighbor lists of the symmetric graph with edge set E, in id order
NeighborLists(E) ==
    [ n \in Nodes |->
        SortAsc(SelectSeq([i \in 1 .. Cardinality(Nodes) |-> i],
                          LAMBDA m : {n, m} \in E),
                [m \in Nodes |-> m]) ]

\* the graphs routed on: complete, three paths, a cycle, a star around
\* node 4, and a graph with isolated nodes
Topologies ==
    { Pairs,
      { {1, 3}, {3, 4}, {4, 2} },
      { {1, 2}, {1, 3}, {3, 4} },
      { {1, 2}, {2, 3}, {3, 4} },
      { {1, 3}, {3, 4}, {4, 2}, {2, 1} },
      { {4, 1}, {4, 2}, {4, 3} },
      { {1, 2} } }

NetInitIn(graphs) ==
    /\ impl \in {"simulator", "avrs"}
    /\ all_nodes = << 1, 2, 3, 4 >>
    /\ topo_ops = 0
    /\ answer = "unasked"
    /\ \E E \in graphs : neighbors = NeighborLists(E)
    /\ alive = [n \in Nodes |-> TRUE]
    /\ load = [n \in Nodes |-> 0]
    /\ trust = [n \in Nodes |-> 100]
    /\ route_cache = [n \in Nodes |-> [k \in CacheKeys |-> None]]
    /\ pc = "idle"
    /\ request = [target_vector |-> <<0, 0>>, request_text |-> {}]
    /\ target_role = NoRole
    /\ current = None
    /\ visited = {}
    /\ step = 0
    /\ result = EmptyResult(None)
    /\ failed_before = {}
    /\ routes = 0
    /\ faults = 0

NetInit == NetInitIn(Topologies)

Init == NetInit /\ AuxInit

Next ==
    \/ \E start \in Nodes, t \in Targets : SimStartRoute(start, t)
    \/ SimRouteStep
    \/ \E start \in Nodes, t \in Targets, text \in RequestTexts :
          AvStartRoute(start, t, text)
    \/ AvRouteStep
    \/ \E n \in Nodes : Fail(n)
    \/ \E n \in Nodes : Recover(n)

Spec == Init /\ [][Next]_vars

\* ------------------------------------------------------------------------
\*  graph_builder.py: topology construction and mutation
\* ------------------------------------------------------------------------
MaxTopoOps == 3
KValues == { 0, 1, 2, 3 }
HEAL_DEFAULT_K == 3

\* Node.add_neighbor: no duplicates, no self
add_neighbor(nbrs, a, b) ==
    IF b # a /\ b \notin Range(nbrs[a])
      THEN [nbrs EXCEPT ![a] = Append(@, b)]
      ELSE nbrs

LinkOneWay(nbrs, a, b) == add_neighbor(nbrs, a, b)

\* node.add_neighbor(neighbor); neighbor.add_neighbor(node)
Link(nbrs, a, b) == add_neighbor(add_neighbor(nbrs, a, b), b, a)

RECURSIVE LinkAll(_, _, _)
LinkAll(nbrs, a, list) ==
    IF list = << >> THEN nbrs
    ELSE LinkAll(Link(nbrs, a, Head(list)), a, Tail(list))

\* the whole list, whatever k
PrefixUnbounded(s, k) == s

\* s[:k]
Prefix(s, k) == SubSeq(s, 1, Min(k, Len(s)))

\* the other nodes of the list, nearest first
Nearest(n, list) ==
    SortAsc(SelectSeq(list, LAMBDA m : m # n),
            [m \in Nodes |-> Dist2(vector[n], vector[m])])

RECURSIVE KnnLoop(_, _, _, _)
KnnLoop(nbrs, todo, list, k) ==
    IF todo = << >> THEN nbrs
    ELSE KnnLoop(LinkAll(nbrs, Head(todo), Prefix(Nearest(Head(todo), list), k)),
                 Tail(todo), list, k)

build_knn_graph(nbrs, list, k) == KnnLoop(nbrs, list, list, k)

\* the edges of a set of simplices: every pair inside a simplex
SimplexEdges(simplices) ==
    { e \in Pairs : \E sx \in simplices : e \subseteq sx }

RECURSIVE LinkEdges(_, _)
LinkEdges(nbrs, edges) ==
    IF edges = {} THEN nbrs
    ELSE LET e == CHOOSE x \in edges : TRUE
             a == CHOOSE x \in e : \A y \in e : x <= y
             b == CHOOSE x \in e : x # a
         IN  LinkEdges(Link(nbrs, a, b), edges \ {e})

RECURSIVE HealLoop(_, _, _, _)
HealLoop(nbrs, todo, neighbors_of_failed, k) ==
    IF todo = << >> THEN nbrs
    ELSE LET node == Head(todo)
             candidates ==
                SortAsc(SelectSeq(neighbors_of_failed,
                                  LAMBDA n : n # node
                                             /\ n \notin Range(nbrs[node])),
                        [m \in Nodes |-> Dist2(vector[node], vector[m])])
         IN  HealLoop(LinkAll(nbrs, node, Prefix(candidates, k)),
                      Tail(todo), neighbors_of_failed, k)

\* a healing that also drops the failed node's own list
heal_detaching_failed(nbrs, alv, failed_node, k) ==
    LET neighbors_of_failed == SelectSeq(nbrs[failed_node], LAMBDA n : alv[n])
    IN  [HealLoop(nbrs, neighbors_of_failed, neighbors_of_failed, k)
           EXCEPT ![failed_node] = << >>]

\* the neighbor lists after healing around failed_node
heal_around_failure(nbrs, alv, failed_node, k) ==
    LET neighbors_of_failed == SelectSeq(nbrs[failed_node], LAMBDA n : alv[n])
    IN  HealLoop(nbrs, neighbors_of_failed, neighbors_of_failed, k)

\* the neighbor lists after insert_node
insert_node(nbrs, alv, list, new_node, k) ==
    LET candidates ==
           SortAsc(SelectSeq(list, LAMBDA n : alv[n] /\ n # new_node),
                   [m \in Nodes |-> Dist2(vector[new_node], vector[m])])
    IN  LinkAll(nbrs, new_node, Prefix(candidates, k))

NoEdges == [n \in Nodes |-> << >>]

\* b is in the neighbor list of a
HasEdge(nbrs, a, b) == b \in Range(nbrs[a])

\* the unordered pairs joined after the step and not before
NewPairs ==
    { e \in Pairs : \E a, b \in e : /\ HasEdge(neighbors', a, b)
                                    /\ ~HasEdge(neighbors, a, b) }

\* the unordered pairs joined before the step and not after
DroppedPairs ==
    { e \in Pairs : \E a, b \in e : /\ HasEdge(neighbors, a, b)
                                    /\ ~HasEdge(neighbors', a, b) }

TopoIdle ==
    /\ pc = "idle"
    /\ topo_ops < MaxTopoOps

TopoFrame ==
    /\ topo_ops' = topo_ops + 1
    /\ UNCHANGED << impl, answer, load, trust, route_cache, route_vars,
                    faults, trust_ops, monitor_vars, load_vars, gateway_vars, extra_vars, call,
                    obs_log,
                    observability >>

BuildKnn(k) ==
    /\ TopoIdle
    /\ neighbors' = build_knn_graph(neighbors, all_nodes, k)
    /\ UNCHANGED << all_nodes, alive >>
    /\ topo_last' = [op |-> "build_knn", node |-> None, k |-> k,
                     added |-> Cardinality(NewPairs),
                     dropped |-> Cardinality(DroppedPairs)]
    /\ TopoFrame

\* build_delaunay_graph over the list: KNN when there are fewer than
\* dim + 2 nodes or the tessellation fails, else the edges of the simplices
\* the tessellator returns (any simplices over the points)
DelaunayOver(nbrs, list, nbrs2) ==
    \/ /\ Len(list) < 2
       /\ nbrs2 = build_knn_graph(nbrs, list, Min(5, Len(list) - 1))
    \/ /\ Len(list) >= 2
       /\ Len(list) < 4
       /\ nbrs2 = build_knn_graph(nbrs, list, Min(5, Len(list) - 1))
    \/ /\ Len(list) >= 4
       /\ nbrs2 = build_knn_graph(nbrs, list, 5)
    \/ /\ Len(list) >= 4
       /\ \E simplices \in SUBSET { sx \in SUBSET Range(list) :
                                     Cardinality(sx) = 3 } :
             /\ simplices # {}
             /\ nbrs2 = LinkEdges(nbrs, SimplexEdges(simplices))

BuildDelaunay ==
    /\ TopoIdle
    /\ DelaunayOver(neighbors, all_nodes, neighbors')
    /\ UNCHANGED << all_nodes, alive >>
    /\ topo_last' = [op |-> "build_delaunay", node |-> None, k |-> 0,
                     added |-> Cardinality(NewPairs),
                     dropped |-> Cardinality(DroppedPairs)]
    /\ TopoFrame

InsertNode(n, k) ==
    /\ TopoIdle
    /\ n \notin Range(all_nodes)
    /\ neighbors' = insert_node(neighbors, alive, all_nodes, n, k)
    /\ all_nodes' = Append(all_nodes, n)
    /\ UNCHANGED alive
    /\ topo_last' = [op |-> "insert", node |-> n, k |-> k,
                     added |-> Cardinality(NewPairs),
                     dropped |-> Cardinality(DroppedPairs)]
    /\ TopoFrame

\* remove_node: node.fail(), then heal_around_failure unless heal is off
RemoveNode(n, heal) ==
    /\ TopoIdle
    /\ n \in Range(all_nodes)
    /\ alive' = [alive EXCEPT ![n] = FALSE]
    /\ neighbors' = IF heal
                      THEN heal_around_failure(neighbors, alive', n,
                                               HEAL_DEFAULT_K)
                      ELSE neighbors
    /\ UNCHANGED all_nodes
    /\ topo_last' = [op |-> IF heal THEN "remove_heal" ELSE "remove",
                     node |-> n, k |-> HEAL_DEFAULT_K,
                     added |-> Cardinality(NewPairs),
                     dropped |-> Cardinality(DroppedPairs)]
    /\ TopoFrame

HealAroundFailure(n, k) ==
    /\ TopoIdle
    /\ n \in Range(all_nodes)
    /\ neighbors' = heal_around_failure(neighbors, alive, n, k)
    /\ UNCHANGED << all_nodes, alive >>
    /\ topo_last' = [op |-> "heal", node |-> n, k |-> k,
                     added |-> Cardinality(NewPairs),
                     dropped |-> Cardinality(DroppedPairs)]
    /\ TopoFrame

\* a rebuild that constructs over the lists as they are
RebuildWithoutClearing(mode, k) ==
    /\ TopoIdle
    /\ LET alive_nodes == SelectSeq(all_nodes, LAMBDA n : alive[n])
       IN  IF mode = "delaunay"
             THEN DelaunayOver(neighbors, alive_nodes, neighbors')
             ELSE neighbors' = build_knn_graph(neighbors, alive_nodes, k)
    /\ UNCHANGED << all_nodes, alive >>
    /\ topo_last' = [op |-> "rebuild_" \o mode, node |-> None, k |-> k,
                     added |-> Cardinality(NewPairs),
                     dropped |-> Cardinality(DroppedPairs)]
    /\ TopoFrame

\* rebuild_topology: clear every list, rebuild over the alive nodes
RebuildTopology(mode, k) ==
    /\ TopoIdle
    /\ LET alive_nodes == SelectSeq(all_nodes, LAMBDA n : alive[n])
       IN  IF mode = "delaunay"
             THEN DelaunayOver(NoEdges, alive_nodes, neighbors')
             ELSE neighbors' = build_knn_graph(NoEdges, alive_nodes, k)
    /\ UNCHANGED << all_nodes, alive >>
    /\ topo_last' = [op |-> "rebuild_" \o mode, node |-> None, k |-> k,
                     added |-> Cardinality(NewPairs),
                     dropped |-> Cardinality(DroppedPairs)]
    /\ TopoFrame

TopoRecover(n) ==
    /\ TopoIdle
    /\ n \in Range(all_nodes)
    /\ ~alive[n]
    /\ alive' = [alive EXCEPT ![n] = TRUE]
    /\ UNCHANGED << all_nodes, neighbors >>
    /\ topo_last' = [op |-> "recover", node |-> n, k |-> 0,
                     added |-> Cardinality(NewPairs),
                     dropped |-> Cardinality(DroppedPairs)]
    /\ TopoFrame

TopoInit ==
    /\ impl = "simulator"
    /\ all_nodes \in { << 1, 2, 3 >>, << 1, 2, 3, 4 >>, << 4, 2, 1 >> }
    /\ topo_ops = 0
    /\ answer = "unasked"
    /\ neighbors = NoEdges
    /\ alive = [n \in Nodes |-> TRUE]
    /\ load = [n \in Nodes |-> 0]
    /\ trust = [n \in Nodes |-> 100]
    /\ route_cache = [n \in Nodes |-> [k \in CacheKeys |-> None]]
    /\ pc = "idle"
    /\ request = [target_vector |-> <<0, 0>>, request_text |-> {}]
    /\ target_role = NoRole
    /\ current = None
    /\ visited = {}
    /\ step = 0
    /\ result = EmptyResult(None)
    /\ failed_before = {}
    /\ routes = 0
    /\ faults = 0
    /\ AuxInit

TopoNext ==
    \/ \E k \in KValues : BuildKnn(k)
    \/ BuildDelaunay
    \/ \E n \in Nodes, k \in KValues : InsertNode(n, k)
    \/ \E n \in Nodes, heal \in BOOLEAN : RemoveNode(n, heal)
    \/ \E n \in Nodes, k \in KValues : HealAroundFailure(n, k)
    \/ \E mode \in {"knn", "delaunay"}, k \in KValues : RebuildTopology(mode, k)
    \/ \E n \in Nodes : TopoRecover(n)

SpecTopo == TopoInit /\ [][TopoNext]_vars

\* ------------------------------------------------------------------------
\*  The termination oracle on its own
\* ------------------------------------------------------------------------
\* has_reached_target of the engine in use, applied to (cur, t)
OracleAsk(cur, t) ==
    /\ current' = cur
    /\ request' = [target_vector |-> t, request_text |-> {}]
    /\ answer' = IF impl = "simulator"
                   THEN SimHasReachedTarget(cur, t)
                   ELSE IF AvHasReachedTarget(cur, t) THEN "reached" ELSE ""
    /\ UNCHANGED << impl, all_nodes, topo_ops, node_vars, pc, target_role,
                    visited, step, result, failed_before, routes, faults,
                    aux_vars, observability >>

\* a node fails; the last answer is about the state before
OracleFail(n) ==
    /\ alive[n]
    /\ faults < MaxFaults
    /\ alive' = [alive EXCEPT ![n] = FALSE]
    /\ faults' = faults + 1
    /\ answer' = "unasked"
    /\ UNCHANGED << impl, all_nodes, topo_ops, neighbors, load, trust,
                    route_cache, route_vars, aux_vars, observability >>

OracleNext ==
    \/ \E cur \in Nodes, t \in Targets : OracleAsk(cur, t)
    \/ \E n \in Nodes : OracleFail(n)

SpecOracle == Init /\ [][OracleNext]_vars

\* ------------------------------------------------------------------------
\*  Properties
\* ------------------------------------------------------------------------
Last(s) == s[Len(s)]

\* C1: no node id occurs twice in the path of a route, in either executor.
NoCycling == NoDup(result.path)

NoCyclingWitness ==
    /\ pc = "returned"
    /\ Len(result.path) >= 3
    /\ \E i \in 1 .. Len(result.path) :
          \E n \in Range(neighbors[result.path[i]]) :
              \E j \in 1 .. i - 1 : n = result.path[j] /\ j # i - 1

\* C2: the hop loop runs at most MAX_HOPS iterations and a returned result
\* has total_hops <= MAX_HOPS.
FiniteTermination ==
    /\ step <= MAX_HOPS
    /\ Len(result.path) <= MAX_HOPS
    /\ pc = "running" => step < MAX_HOPS
    /\ pc = "returned" => result.total_hops <= MAX_HOPS

FiniteTerminationWitness ==
    /\ pc = "returned"
    /\ ~result.success
    /\ step = MAX_HOPS
    /\ result.total_hops = MAX_HOPS

\* C3 (as claimed): a node that failed before a route began and stayed
\* failed never appears in the path of that route.
DeadExclusion ==
    pc = "returned" => \A n \in failed_before : n \notin Range(result.path)

\* C4: a successful avrs route with a required role ends at a node of that
\* role.
RoleCorrectness ==
    (impl = "avrs" /\ pc = "returned" /\ result.success
        /\ target_role # NoRole)
      => role[Last(result.path)] = target_role

RoleCorrectnessWitness ==
    /\ impl = "avrs"
    /\ pc = "returned"
    /\ result.success
    /\ target_role # NoRole
    /\ Len(result.path) >= 2
    /\ role[result.path[1]] # target_role

\* C5: a call made while the required role has no alive node returns at
\* once: no success, no hop, the start node as final node, no load change.
SectionPreservation ==
    [][ (impl = "avrs" /\ routes' = routes + 1
           /\ target_role' # NoRole
           /\ ~ \E n \in Nodes : role[n] = target_role' /\ alive[n])
        => /\ pc' = "returned"
           /\ ~result'.success
           /\ result'.total_hops = 0
           /\ result'.path = << >>
           /\ result'.final_node_id = current'
           /\ result'.final_node_id = result'.start_node_id
           /\ load' = load ]_vars

SectionPreservationWitness ==
    /\ impl = "avrs"
    /\ pc = "returned"
    /\ target_role = "auth"
    /\ \A n \in Nodes : role[n] = "auth" => ~alive[n]
    /\ result.path = << >>
    /\ result.total_hops = 0
    /\ ~result.success

\* C6: the node select_next_hop returns and the node the avrs executor
\* advances to are below capacity when they are chosen.
CapacityExclusion ==
    [][ (impl = "avrs" /\ pc = "running")
        => /\ current' # current => load[current'] < capacity[current']
           /\ (Len(result'.hops) > Len(result.hops)
                 /\ Last(result'.hops).selected # None)
                => load[Last(result'.hops).selected]
                     < capacity[Last(result'.hops).selected] ]_vars

CapacityExclusionWitness ==
    /\ impl = "avrs"
    /\ Len(result.path) >= 2
    /\ \E n \in Range(neighbors[result.path[1]]) :
          /\ alive[n]
          /\ load[n] >= capacity[n]
          /\ n \notin Range(result.path)

\* C7: in the Simulator every hop recorded as greedy goes to a node strictly
\* closer to the target than the node it leaves.
GreedyMonotone ==
    impl = "simulator" =>
      \A i \in 1 .. Len(result.hops) :
         result.hops[i].method = "greedy" =>
            Dist2(vector[result.hops[i].chosen_next], request.target_vector)
              < Dist2(vector[result.hops[i].node_id], request.target_vector)

GreedyMonotoneWitness ==
    /\ impl = "simulator"
    /\ \E i, j \in 1 .. Len(result.hops) :
          /\ result.hops[i].method = "greedy"
          /\ result.hops[j].method \in {"cache", "fallback", "face"}
          /\ Dist2(vector[result.hops[j].chosen_next], request.target_vector)
               >= Dist2(vector[result.hops[j].node_id], request.target_vector)

\* C8: after any sequence of topology operations the neighbor lists are
\* symmetric and without self loops.
Symmetry ==
    \A a, b \in Nodes :
       /\ b \in Range(neighbors[a]) <=> a \in Range(neighbors[b])
       /\ a \notin Range(neighbors[a])

SymmetryWitness ==
    /\ topo_ops = MaxTopoOps
    /\ \E n \in Nodes : ~alive[n] /\ neighbors[n] # << >>
    /\ \E a, b \in Nodes : b \in Range(neighbors[a])
    /\ Len(all_nodes) = 4

\* C9 (as claimed): route_request never raises; the packet-cycle assertion
\* of Simulator.route_request never fails.
NeverRaises == pc # "raised"

\* C10 (as claimed): with an alive neighbor exactly as close to the target
\* as the current node and the cosine condition false, has_reached_target
\* does not report reached.
CosineHolds ==
    CosineAbove(vector[current], request.target_vector,
                IF impl = "simulator" THEN SIM_COSINE_THRESHOLD
                                      ELSE AV_COSINE_THRESHOLD)

AliveNeighborSet(n) == { m \in Range(neighbors[n]) : alive[m] }

TiesDoNotTerminate ==
    (/\ answer # "unasked"
     /\ ~CosineHolds
     /\ \E m \in AliveNeighborSet(current) :
           Dist2(vector[m], request.target_vector)
             = Dist2(vector[current], request.target_vector))
      => answer = ""

\* C10 (amended): has_reached_target reports a local minimum exactly when
\* the current node has an alive neighbor and no alive neighbor is strictly
\* closer to the target; a tie does not keep it from terminating.  With a
\* strictly closer alive neighbor and the cosine condition false it does not
\* report reached.
LocalMinimumOracle ==
    answer # "unasked" =>
      LET t == request.target_vector
          none_closer ==
             /\ AliveNeighborSet(current) # {}
             /\ \A m \in AliveNeighborSet(current) :
                   Dist2(vector[m], t) >= Dist2(vector[current], t)
      IN  /\ none_closer => answer # ""
          /\ impl = "simulator" => (answer = "local_minimum" <=> none_closer)
          /\ (~none_closer /\ AliveNeighborSet(current) # {} /\ ~CosineHolds)
               => answer = ""

LocalMinimumOracleWitness ==
    /\ answer # "unasked"
    /\ answer # ""
    /\ ~CosineHolds
    /\ \E m \in AliveNeighborSet(current) :
          Dist2(vector[m], request.target_vector)
            = Dist2(vector[current], request.target_vector)

\* C11 (as claimed): a route started at an alive node without alive
\* neighbors ends at once as successful with path = [start].
TerminalWithoutNeighbors ==
    [][ (/\ pc = "running"
         /\ step = 0
         /\ result' # result
         /\ alive[current]
         /\ get_alive_neighbors(current) = << >>)
        => /\ pc' = "returned"
           /\ result'.success
           /\ result'.path = << current >> ]_vars

\* C12 (as claimed): when the cached next hop of the current node for the
\* target is still valid (an alive neighbor of the required role, below
\* capacity, not visited), select_next_hop with the cache answers the same
\* node as select_next_hop without it.
CachedHopValid ==
    LET cached_id == get_cached_route(current, TargetKey(request.target_vector))
    IN  /\ cached_id # None
        /\ cached_id \in Range(get_alive_neighbors(current))
        /\ cached_id \notin visited \cup {current}
        /\ impl = "avrs" =>
              /\ ~is_at_capacity(cached_id)
              /\ target_role = NoRole \/ role[cached_id] = target_role

CacheEquivalence ==
    (pc = "running" /\ CachedHopValid) =>
       LET t == request.target_vector
           vis == visited \cup {current}
       IN  IF impl = "avrs"
             THEN AvSelectNextHop(current, t, target_role, {}, TRUE)
                    = AvSelectNextHop(current, t, target_role, {}, FALSE)
             ELSE SimSelectNextHop(current, t, vis, TRUE).node
                    = SimSelectNextHop(current, t, vis, FALSE).node

\* ------------------------------------------------------------------------
\*  Trust operations called directly (avrs/trust_system.py, Node.reduce_trust
\*  and Node.restore_trust of avrs/node.py and graph_builder.py).  An
\*  optional argument is << >> (not given) or << v >>.
\* ------------------------------------------------------------------------
MaxTrustOps == 3
TRUST_DECREASE_SLOW == 10
TRUST_DECREASE_ERROR == 20
SLOW_RESPONSE_MS == 500
FAST_RESPONSE_MS == 50
INITIAL_TRUST == 100

\* trust levels and amounts passed by callers, in hundredths
TrustArgs == { -50, 0, 30, 100, 150 }
ResponseTimes == { 10, 100, 900 }

record_error(tr, n) ==
    [tr EXCEPT ![n] = Max(0, @ - TRUST_DECREASE_ERROR)]

record_slow_response(tr, n, response_time_ms) ==
    IF response_time_ms < SLOW_RESPONSE_MS THEN tr
    ELSE [tr EXCEPT ![n] = Max(0, @ - TRUST_DECREASE_SLOW)]

reset_trust(tr, n, opt_trust) ==
    [tr EXCEPT ![n] = IF opt_trust # << >> THEN opt_trust[1]
                                            ELSE INITIAL_TRUST]

reduce_trust(tr, n, amount) == [tr EXCEPT ![n] = Max(0, @ - amount)]

\* graph_builder.Node.restore_trust and avrs Node.restore_trust
restore_trust(tr, n, amount) ==
    [tr EXCEPT ![n] = IF impl = "simulator" THEN Min(100, amount)
                                            ELSE Max(0, Min(100, amount))]

TrustFrame ==
    /\ trust_ops < MaxTrustOps
    /\ trust_ops' = trust_ops + 1
    /\ UNCHANGED << impl, all_nodes, topo_ops, topo_last,
                    answer, neighbors, alive, load,
                    route_cache, route_vars, faults, monitor_vars,
                    load_vars, gateway_vars, extra_vars, call, obs_log, observability >>

RecordSuccess(n, opt_ms) ==
    /\ trust' = record_success(trust, n,
                               opt_ms # << >> /\ opt_ms[1] < FAST_RESPONSE_MS)
    /\ TrustFrame

RecordFailure(n) == trust' = record_failure(trust, n) /\ TrustFrame

RecordError(n) == trust' = record_error(trust, n) /\ TrustFrame

RecordSlowResponse(n, ms) ==
    trust' = record_slow_response(trust, n, ms) /\ TrustFrame

ResetTrust(n, opt_trust) ==
    trust' = reset_trust(trust, n, opt_trust) /\ TrustFrame

ReduceTrust(n, amount) == trust' = reduce_trust(trust, n, amount) /\ TrustFrame

RestoreTrust(n, amount) ==
    trust' = restore_trust(trust, n, amount) /\ TrustFrame

TrustNext ==
    \/ \E n \in Nodes, ms \in ResponseTimes :
          RecordSuccess(n, << >>) \/ RecordSuccess(n, << ms >>)
    \/ \E n \in Nodes : RecordFailure(n)
    \/ \E n \in Nodes : RecordError(n)
    \/ \E n \in Nodes, ms \in ResponseTimes : RecordSlowResponse(n, ms)
    \/ \E n \in Nodes, v \in TrustArgs :
          ResetTrust(n, << >>) \/ ResetTrust(n, << v >>)
    \/ \E n \in Nodes, amount \in TrustArgs : ReduceTrust(n, amount)
    \/ \E n \in Nodes, amount \in TrustArgs : RestoreTrust(n, amount)

SpecTrust == Init /\ [][TrustNext]_vars

\* C13 (as claimed): after any sequence of trust operations with any
\* arguments every node's trust lies in [0, 1].
TrustClamped == \A n \in Nodes : 0 <= trust[n] /\ trust[n] <= 100

\* ------------------------------------------------------------------------
\*  avrs/health_monitor.py: HealthMonitor._check_node_health.  The probe
\*  (_simulate_health_check; an HTTP request to /health in production) is
\*  the environment: it answers ok, answers not ok, or raises.
\* ------------------------------------------------------------------------
MaxProbes == 4
MAX_FAILURES == 3

ProbeOutcomes == { "ok", "fail", "error" }

\* lines 112-115 and 123-124: is the node marked dead at this count
MarksDeadAtFirstFailure(failures) == failures >= 1

MarksDead(failures) == failures >= MAX_FAILURES

\* lines 102-109: the node's liveness after a successful probe
AliveAfterSuccessUnchanged(n) == alive

AliveAfterSuccess(n) ==
    IF ~alive[n] THEN [alive EXCEPT ![n] = TRUE] ELSE alive

CheckNodeHealth(n, outcome) ==
    /\ impl = "avrs"
    /\ probes < MaxProbes
    /\ probes' = probes + 1
    /\ last_probe' = [node |-> n, outcome |-> outcome,
                      streak_before |-> streak[n]]
    /\ IF outcome = "ok"
         THEN /\ failure_counts' = [failure_counts EXCEPT ![n] = 0]
              /\ alive' = AliveAfterSuccess(n)
              /\ failed_before' = IF alive[n] THEN failed_before
                                              ELSE failed_before \ {n}
              /\ streak' = [streak EXCEPT ![n] = 0]
         ELSE LET failures == failure_counts[n] + 1
              IN  /\ failure_counts' = [failure_counts EXCEPT ![n] = failures]
                  /\ alive' = IF MarksDead(failures) /\ alive[n]
                                THEN [alive EXCEPT ![n] = FALSE]
                                ELSE alive
                  /\ failed_before' = failed_before
                  /\ streak' = [streak EXCEPT ![n] = @ + 1]
    /\ UNCHANGED << impl, all_nodes, topo_ops, topo_last,
                    answer, trust_ops, neighbors,
                    load, trust, route_cache, pc, request, target_role,
                    current, visited, step, result, routes, faults,
                    load_vars, gateway_vars, extra_vars, call, obs_log, observability >>

\* HealthMonitor.reset_failure_count
ResetFailureCount(n) ==
    /\ impl = "avrs"
    /\ failure_counts[n] > 0
    /\ failure_counts' = [failure_counts EXCEPT ![n] = 0]
    /\ UNCHANGED << impl, all_nodes, topo_ops, topo_last,
                    answer, trust_ops, streak,
                    probes, last_probe, node_vars, route_vars, faults,
                    load_vars, gateway_vars, extra_vars, call, obs_log, observability >>

\* the monitor does not read the edges: one graph is enough
MonitorInit ==
    /\ Init
    /\ impl = "avrs"
    /\ neighbors = NeighborLists(Pairs)

MonitorNext ==
    \/ \E n \in Nodes, outcome \in ProbeOutcomes : CheckNodeHealth(n, outcome)
    \/ \E n \in Nodes : ResetFailureCount(n)
    \/ \E n \in Nodes : Fail(n)
    \/ \E n \in Nodes : Recover(n)

SpecMonitor == MonitorInit /\ [][MonitorNext]_vars

\* C14: a probe step turns a node from alive to failed only when it is at
\* least the MAX_FAILURES-th failed probe of that node in a row; a failed
\* probe that is fewer in a row leaves every alive flag as it was.
FailedOnlyAfterMaxFailures ==
    [][ probes' # probes =>
          \A n \in Nodes :
             /\ (alive[n] /\ ~alive'[n]) => streak'[n] >= MAX_FAILURES
             /\ (streak'[n] > streak[n] /\ streak'[n] < MAX_FAILURES)
                  => alive' = alive ]_vars

FailedOnlyAfterMaxFailuresWitness ==
    \E n \in Nodes :
       /\ ~alive[n]
       /\ faults = 0
       /\ last_probe.node = n
       /\ last_probe.outcome # "ok"
       /\ streak[n] = MAX_FAILURES

\* C15: the first successful probe of a node after failed probes leaves
\* the node alive and its failure counter at 0.
SuccessClearsFailures ==
    [][ probes' # probes =>
          \A n \in Nodes :
             (streak[n] > 0 /\ streak'[n] = 0)
               => alive'[n] /\ failure_counts'[n] = 0 ]_vars

SuccessClearsFailuresWitness ==
    /\ faults = 0
    /\ last_probe.outcome = "ok"
    /\ last_probe.streak_before >= MAX_FAILURES
    /\ alive[last_probe.node]
    /\ failure_counts[last_probe.node] = 0

\* ------------------------------------------------------------------------
\*  Observability of route_request (avrs/simulation.py, observability.py)
\* ------------------------------------------------------------------------
\* a route_request call of the Simulation returns in this step
AvCallReturns ==
    /\ impl = "avrs"
    /\ pc' = "returned"
    /\ (pc = "running" \/ routes' # routes)

\* C16: every route_request call that returns is counted in the sink:
\* total_requests grows by one and exactly one of successful_routes and
\* failed_routes grows by one, whatever the way the call ended.
EveryReturnCounted ==
    [][ AvCallReturns =>
          /\ observability'.total_requests = observability.total_requests + 1
          /\ \/ /\ observability'.successful_routes =
                     observability.successful_routes + 1
                /\ observability'.failed_routes = observability.failed_routes
             \/ /\ observability'.failed_routes =
                     observability.failed_routes + 1
                /\ observability'.successful_routes =
                     observability.successful_routes ]_vars

\* C17: every result of route_request with success = FALSE carries a failure
\* reason: its failures list is not empty, whichever way the route failed
\* (no next hop, hop cap, node failed on the route, section empty).
FailureHasReason ==
    (impl = "avrs" /\ pc = "returned" /\ ~result.success)
        => result.failures # << >>

\* C18: route_request heals itself at most once per call: reroute_count of
\* its result never exceeds 1, even when several nodes fail while the route
\* is running.
AtMostOneSelfHeal ==
    (impl = "avrs" /\ pc \in {"running", "returned"})
        => result.reroute_count <= 1

\* ------------------------------------------------------------------------
\*  Concurrent load updates (avrs/node.py increment_load)
\* ------------------------------------------------------------------------
\* bound on the visits of all executors together
MaxVisits == 3

RECURSIVE SumOver(_, _)
SumOver(f, S) ==
    IF S = {} THEN 0
    ELSE LET n == CHOOSE x \in S : TRUE
         IN  f[n] + SumOver(f, S \ {n})

StartedVisits ==
    SumOver(visits, Nodes)
        + Cardinality({ e \in Executors : executors[e].pc # "idle" })

LoadFrame ==
    UNCHANGED << impl, all_nodes, topo_ops, topo_last,
                    answer, neighbors, alive, trust,
                 route_cache, route_vars, faults, trust_ops, monitor_vars,
                 gateway_vars, extra_vars, call, obs_log, observability >>

\* `self.load += amount` first reads self.load; no lock is held
IncrementLoadRead(e, n) ==
    /\ impl = "avrs"
    /\ executors[e].pc = "idle"
    /\ alive[n]
    /\ StartedVisits < MaxVisits
    /\ executors' = [executors EXCEPT
                       ![e] = [pc |-> "read", node |-> n, read |-> load[n]]]
    /\ UNCHANGED << load, visits >>
    /\ LoadFrame

\* ... then stores the value it read plus the amount (1)
IncrementLoadStore(e) ==
    /\ executors[e].pc = "read"
    /\ LET n == executors[e].node
       IN  /\ load' = [load EXCEPT ![n] = executors[e].read + 1]
           /\ visits' = [visits EXCEPT ![n] = @ + 1]
    /\ executors' = [executors EXCEPT
                       ![e] = [pc |-> "idle", node |-> None, read |-> 0]]
    /\ LoadFrame

LoadNext ==
    \/ \E e \in Executors, n \in Nodes : IncrementLoadRead(e, n)
    \/ \E e \in Executors : IncrementLoadStore(e)

SpecLoad == MonitorInit /\ [][LoadNext]_vars

\* C19: load updates are atomic: when executors visit the same node at the
\* same time no increment is lost; once all of them are done the load of a
\* node is its initial load (0) plus the number of visits it received.
NoLostIncrement ==
    (\A e \in Executors : executors[e].pc = "idle")
        => \A n \in Nodes : load[n] = visits[n]

\* C20: route_request raises the load of every node of the returned path by
\* one and leaves every other load alone: each step of a call that appends a
\* node to the path adds one to the load of that node and of no other, and a
\* step that appends nothing changes no load.
PathNodesLoaded ==
    [][ (impl = "avrs" /\ (pc = "running" \/ routes' # routes))
          => \A n \in Nodes :
                load'[n] = IF result'.path = Append(result.path, n)
                             THEN load[n] + 1
                             ELSE load[n] ]_vars

\* ------------------------------------------------------------------------
\*  Topology maintenance (graph_builder.py)
\* ------------------------------------------------------------------------
\* the step is a call of the named topology operations
TopoCall(ops) == topo_ops' # topo_ops /\ topo_last'.op \in ops

\* C21: remove_node marks the node as not alive and nothing more is taken
\* away: the node list is unchanged, no other node's alive flag changes, and
\* every edge that existed before the call, the removed node's edges
\* included, exists after it.
RemoveOnlyMarks ==
    [][ TopoCall({"remove", "remove_heal"})
          => /\ ~alive'[topo_last'.node]
             /\ \A m \in Nodes \ {topo_last'.node} : alive'[m] = alive[m]
             /\ all_nodes' = all_nodes
             /\ \A a, b \in Nodes :
                   HasEdge(neighbors, a, b) => HasEdge(neighbors', a, b) ]_vars

\* a node removed with healing that still has its edges, in both directions
RemoveOnlyMarksWitness ==
    /\ topo_last.op = "remove_heal"
    /\ ~alive[topo_last.node]
    /\ topo_last.node \in Range(all_nodes)
    /\ \E b \in Nodes : /\ HasEdge(neighbors, topo_last.node, b)
                        /\ HasEdge(neighbors, b, topo_last.node)

\* the alive neighbors of the failed node, as heal_around_failure reads them
AliveNeighborsOf(f) == { n \in Range(neighbors[f]) : alive[n] }

\* C22: heal_around_failure(failed, k) removes no edge, and every edge it
\* adds joins two distinct alive neighbors of the failed node that were not
\* connected before, never the failed node or a dead node; every neighbor
\* initiates at most k edges (so at most k times the number of alive
\* neighbors are added), and the first neighbor gets its nearest unconnected
\* candidates.
HealAddsLocalEdges ==
    [][ TopoCall({"heal"})
          => LET f == topo_last'.node
                 k == topo_last'.k
                 nf == AliveNeighborsOf(f)
                 h == Head(SelectSeq(neighbors[f], LAMBDA n : alive[n]))
                 cand == { c \in nf \ {h} : ~HasEdge(neighbors, h, c) }
             IN  /\ alive' = alive
                 /\ all_nodes' = all_nodes
                 /\ \A a, b \in Nodes :
                       HasEdge(neighbors, a, b) => HasEdge(neighbors', a, b)
                 /\ \A a, b \in Nodes :
                       (HasEdge(neighbors', a, b) /\ ~HasEdge(neighbors, a, b))
                          => /\ a # b
                             /\ a \in nf
                             /\ b \in nf
                             /\ a # f
                             /\ b # f
                             /\ alive[a]
                             /\ alive[b]
                             /\ ~HasEdge(neighbors, b, a)
                             /\ HasEdge(neighbors', b, a)
                 /\ Cardinality(NewPairs) <= k * Cardinality(nf)
                 /\ nf # {} =>
                       \A c \in cand :
                          Cardinality({ d \in cand \ {c} :
                                          Dist2(vector[h], vector[d])
                                             <= Dist2(vector[h], vector[c]) })
                             < k
                          => HasEdge(neighbors', h, c) ]_vars

\* a healing with k = 1 around a failed node with three alive neighbors
\* that added two edges or more
HealAddsLocalEdgesWitness ==
    /\ topo_last.op = "heal"
    /\ topo_last.k = 1
    /\ topo_last.added >= 2
    /\ ~alive[topo_last.node]
    /\ Cardinality(AliveNeighborsOf(topo_last.node)) = 3

\* the nodes a rebuild constructs over
AliveListed == { n \in Range(all_nodes) : alive[n] }

\* the alive listed nodes other than a that are at least as near to a as b
NoFartherThan(a, b) ==
    { d \in AliveListed \ {a, b} :
        Dist2(vector[a], vector[d]) <= Dist2(vector[a], vector[b]) }

\* the alive listed nodes strictly nearer to a than b
NearerThan(a, b) ==
    { d \in AliveListed \ {a, b} :
        Dist2(vector[a], vector[d]) < Dist2(vector[a], vector[b]) }

\* C23: after rebuild_topology the neighbor lists are a fresh graph over the
\* alive nodes: every dead node has an empty list, every edge joins two alive
\* nodes of the list and is symmetric, and no edge of before survives unless
\* the construction makes it again (in knn mode an edge is there only if one
\* end is among the k nearest of the other, and is there whenever it is).
RebuildIsFresh ==
    [][ TopoCall({"rebuild_knn", "rebuild_delaunay"})
          => LET k == topo_last'.k
             IN  /\ alive' = alive
                 /\ all_nodes' = all_nodes
                 /\ \A n \in Nodes : ~alive[n] => neighbors'[n] = << >>
                 /\ \A a, b \in Nodes :
                       HasEdge(neighbors', a, b)
                          => /\ a # b
                             /\ a \in AliveListed
                             /\ b \in AliveListed
                             /\ HasEdge(neighbors', b, a)
                 /\ topo_last'.op = "rebuild_knn" =>
                       \A a, b \in AliveListed :
                          a # b =>
                             /\ HasEdge(neighbors', a, b)
                                   => \/ Cardinality(NearerThan(a, b)) < k
                                      \/ Cardinality(NearerThan(b, a)) < k
                             /\ Cardinality(NoFartherThan(a, b)) < k
                                   => HasEdge(neighbors', a, b) ]_vars

\* a knn rebuild with k = 1 that dropped two edges or more, with a dead node
\* in the list, two alive nodes left unjoined and two joined
RebuildIsFreshWitness ==
    /\ topo_last.op = "rebuild_knn"
    /\ topo_last.k = 1
    /\ topo_last.dropped >= 2
    /\ \E n \in Range(all_nodes) : ~alive[n]
    /\ \E a, b \in AliveListed : a # b /\ ~HasEdge(neighbors, a, b)
    /\ \E a, b \in AliveListed : HasEdge(neighbors, a, b)

\* ------------------------------------------------------------------------
\*  Face routing on its own (topology_engine.py face_route_full)
\* ------------------------------------------------------------------------
\* the step budgets tried; 30 is the one select_next_hop passes
FaceBudgets == { 0, 1, 2, 3, FACE_MAX_STEPS }

\* path_taken of face_route_full: the start, then every node stepped to
RECURSIVE FacePathLoop(_, _, _, _, _, _, _)
FacePathLoop(start, t, cur, prev, visited_in_face, steps_left, path) ==
    IF steps_left = 0 THEN path
    ELSE LET next_node == face_route_step(cur, t, prev, visited_in_face)
         IN  IF next_node = None THEN path
             ELSE IF Closer(next_node, start, t) THEN Append(path, next_node)
             ELSE IF next_node = start THEN Append(path, next_node)
             ELSE FacePathLoop(start, t, next_node, cur,
                               visited_in_face \cup {next_node},
                               steps_left - 1, Append(path, next_node))

face_route_path(start, t, max_face_steps) ==
    FacePathLoop(start, t, start, None, {start}, max_face_steps, << start >>)

FaceFrame ==
    UNCHANGED << impl, all_nodes, topo_ops, topo_last, answer, node_vars,
                 route_vars, faults, trust_ops, monitor_vars, load_vars, gateway_vars, extra_vars,
                 obs_log, observability >>

FaceRouteFull(start, t, max_face_steps) ==
    /\ call' = [fn |-> "face_route_full", start |-> start, target |-> t,
                max_face_steps |-> max_face_steps,
                found |-> face_route_full(start, t, max_face_steps),
                path |-> face_route_path(start, t, max_face_steps)]
    /\ FaceFrame

FaceInit == Init /\ impl = "simulator"

FaceNext ==
    \/ \E start \in Nodes, t \in Targets, m \in FaceBudgets :
          FaceRouteFull(start, t, m)
    \/ \E n \in Nodes : Fail(n)

SpecFace == FaceInit /\ [][FaceNext]_vars

\* the nodes of the path after the start and before the last one
FaceInner(path) == { path[i] : i \in 2 .. Len(path) - 1 }

\* C24: face_route_full returns no node, or the first node it came to that
\* is strictly nearer to the target than the node where it began; it returns
\* no node when it is stuck, when the walk is back at its start, or when
\* max_face_steps steps are used up, and never takes more steps than that.
FaceReturnsFirstCloser ==
    call.fn = "face_route_full" =>
        LET s == call.start
            t == call.target
            path == call.path
            last == path[Len(path)]
        IN  /\ path[1] = s
            /\ Len(path) - 1 <= call.max_face_steps
            /\ \A n \in FaceInner(path) : ~Closer(n, s, t) /\ n # s
            /\ call.found # None =>
                  /\ Len(path) > 1
                  /\ call.found = last
                  /\ Closer(call.found, s, t)
            /\ call.found = None =>
                  \/ Len(path) - 1 = call.max_face_steps
                        /\ (Len(path) > 1 => ~Closer(last, s, t))
                  \/ Len(path) > 1 /\ last = s
                  \/ /\ Len(path) > 1 => ~Closer(last, s, t)
                     /\ \E prev \in Nodes \cup {None} :
                           face_route_step(last, t, prev, Range(path)) = None

\* face routing went two steps and found a nearer node
FaceReturnsFirstCloserWitness ==
    /\ call.fn = "face_route_full"
    /\ call.found # None
    /\ Len(call.path) >= 3

\* ------------------------------------------------------------------------
\*  Bounded history of the Observability sink (avrs/observability.py)
\* ------------------------------------------------------------------------
\* bounds on the writes to the five buffers and on the load samples
MaxLogs == 2
MaxSamples == 102

\* node_load_samples keeps this many samples per node
LOAD_SAMPLE_LIMIT == 100

\* an append that drops the newest entry of a full deque
DequeAppendKeepOldest(d, x, maxlen) ==
    IF Len(d) >= maxlen THEN d ELSE Append(d, x)

\* deque(maxlen=m).append(x): a full deque drops its oldest entry
DequeAppend(d, x, maxlen) ==
    IF maxlen = 0 THEN << >>
    ELSE IF Len(d) >= maxlen THEN Append(Tail(d), x)
    ELSE Append(d, x)

\* samples.append(load), then pop(0) above the limit
record_node_load(samples, load_value) ==
    LET s == Append(samples, load_value)
    IN  IF Len(s) > LOAD_SAMPLE_LIMIT THEN Tail(s) ELSE s

\* the log after one more entry in buffer b; the entry is the number of the
\* write to b
LogAppend(log, b) ==
    [log EXCEPT !.buffers[b] = DequeAppend(@, log.written[b] + 1,
                                           log.max_history),
                !.written[b] = @ + 1]

ObsFrame ==
    UNCHANGED << impl, all_nodes, topo_ops, topo_last, answer, node_vars,
                 route_vars, faults, trust_ops, monitor_vars, load_vars, gateway_vars, extra_vars,
                 call >>

LogIdle == SumOver(obs_log.written, Buffers) < MaxLogs

LogRoutingDecision ==
    /\ LogIdle
    /\ obs_log' = LogAppend(obs_log, "routing_decisions")
    /\ UNCHANGED observability
    /\ ObsFrame

LogRouteCompletion(success) ==
    /\ LogIdle
    /\ obs_log' = LogAppend(obs_log, "route_metrics")
    /\ observability' = log_route_completion(observability,
                                             [success |-> success,
                                              reroute_count |-> 0])
    /\ ObsFrame

LogFailure ==
    /\ LogIdle
    /\ obs_log' = LogAppend(obs_log, "failures")
    /\ UNCHANGED observability
    /\ ObsFrame

LogReroute ==
    /\ LogIdle
    /\ obs_log' = LogAppend(obs_log, "reroutes")
    /\ observability' = log_reroute(observability)
    /\ ObsFrame

LogSecurityBlock ==
    /\ LogIdle
    /\ obs_log' = LogAppend(obs_log, "security_blocks")
    /\ UNCHANGED observability
    /\ ObsFrame

\* record_node_load(node_id, load); the load recorded is the number of the
\* sample of that node
RecordNodeLoad(n) ==
    /\ SumOver(obs_log.sampled, SampleNodes) < MaxSamples
    /\ obs_log' = [obs_log EXCEPT
                     !.node_load_samples[n] =
                        record_node_load(@, obs_log.sampled[n] + 1),
                     !.sampled[n] = @ + 1]
    /\ UNCHANGED observability
    /\ ObsFrame

ObsInit ==
    /\ NetInit
    /\ impl = "avrs"
    /\ neighbors = NeighborLists(Pairs)
    /\ AuxInitButLog
    /\ obs_log \in { EmptyLog(m) : m \in MaxHistories }

ObsNext ==
    \/ LogRoutingDecision
    \/ \E success \in BOOLEAN : LogRouteCompletion(success)
    \/ LogFailure
    \/ LogReroute
    \/ LogSecurityBlock
    \/ \E n \in SampleNodes : RecordNodeLoad(n)

SpecObs == ObsInit /\ [][ObsNext]_vars

\* s holds the last Min(limit, count) of the entries 1 .. count, in order
HoldsMostRecent(s, count, limit) ==
    /\ Len(s) = Min(limit, count)
    /\ \A i \in 1 .. Len(s) : s[i] = count - Len(s) + i

\* C25: after any sequence of log operations every buffer holds at most
\* max_history entries, the most recently written ones in the order they
\* were written, and the load samples of every node are its 100 most recent
\* ones at most.
BuffersBounded ==
    /\ \A b \in Buffers :
          /\ Len(obs_log.buffers[b]) <= obs_log.max_history
          /\ HoldsMostRecent(obs_log.buffers[b], obs_log.written[b],
                             obs_log.max_history)
    /\ \A n \in SampleNodes :
          /\ Len(obs_log.node_load_samples[n]) <= LOAD_SAMPLE_LIMIT
          /\ HoldsMostRecent(obs_log.node_load_samples[n],
                             obs_log.sampled[n], LOAD_SAMPLE_LIMIT)

\* a buffer that evicted an entry and a node that lost its oldest sample
BuffersBoundedWitness ==
    /\ \E b \in Buffers : obs_log.written[b] > obs_log.max_history
    /\ \E n \in SampleNodes : obs_log.sampled[n] > LOAD_SAMPLE_LIMIT

\* ------------------------------------------------------------------------
\*  The selector's tie-break on its own (avrs/routing.py select_next_hop)
\* ------------------------------------------------------------------------
\* targets of the selector calls, some of them behind every node
SelectTargets == { <<-4, -3>>, <<1, 4>>, <<1, -1>> }

\* the recent_nodes lists of the selector calls: empty, or one node
RecentLists == { {} } \cup { {n} : n \in Nodes }

\* score_all_neighbors as the list of (node, score) it returns
AvScoredPairs(cur, t, trole) ==
    LET scored == AvScoreAllNeighbors(cur, t, trole)
    IN  [i \in 1 .. Len(scored) |->
            [node |-> scored[i], score |-> AvScoreNeighbor(scored[i], t)]]

SelectFrame ==
    UNCHANGED << impl, all_nodes, topo_ops, topo_last, answer, node_vars,
                 route_vars, faults, trust_ops, monitor_vars, load_vars, gateway_vars, extra_vars,
                 obs_log, observability >>

\* select_next_hop(current, target, None, recent_nodes) with the cache off
SelectNextHop(cur, t, recent_nodes) ==
    /\ call' = [fn |-> "select_next_hop", current |-> cur, target |-> t,
                recent_nodes |-> recent_nodes,
                scored |-> AvScoredPairs(cur, t, NoRole),
                ret |-> AvSelectNextHop(cur, t, NoRole, recent_nodes, FALSE)]
    /\ SelectFrame

SelectInit ==
    /\ NetInit
    /\ impl = "avrs"
    /\ neighbors = NeighborLists(Pairs)
    /\ AuxInit

SelectNext ==
    \/ \E cur \in Nodes, t \in SelectTargets, recent_nodes \in RecentLists :
          SelectNextHop(cur, t, recent_nodes)
    \/ \E n \in Nodes : Fail(n)
    \/ \E n \in Nodes : Recover(n)

SpecSelect == SelectInit /\ [][SelectNext]_vars

\* score s is within 5% of the top score
WithinFivePercent(s, top) ==
    100 * s >= 100 * top - 5 * (IF top < 0 THEN -top ELSE top)

\* C26: when the cache does not supply the answer, select_next_hop returns a
\* candidate within 5% of the top score that is not in recent_nodes whenever
\* there is one, and the top candidate when every candidate within 5% of the
\* top is recent, whatever the scores are.
TieBreakPrefersFresh ==
    (call.fn = "select_next_hop" /\ call.scored # << >>) =>
        LET top == call.scored[1].score
            fresh == { call.scored[i].node : i \in
                         { j \in 1 .. Len(call.scored) :
                             /\ WithinFivePercent(call.scored[j].score, top)
                             /\ call.scored[j].node
                                   \notin call.recent_nodes } }
        IN  IF fresh # {} THEN call.ret \in fresh
            ELSE call.ret = call.scored[1].node

\* ------------------------------------------------------------------------
\*  The vector kernel on vectors of any length (avrs/math_utils.py)
\* ------------------------------------------------------------------------
MaxDim == 3

\* vectors of 1 to MaxDim coordinates
MathVectors ==
    UNION { [1 .. d -> {0, 1}] : d \in 1 .. MaxDim }

RECURSIVE SumProducts(_, _, _)
SumProducts(v1, v2, i) ==
    IF i = 0 THEN 0 ELSE v1[i] * v2[i] + SumProducts(v1, v2, i - 1)

\* sum(x * x for x in v)
SquareSum(v) == SumProducts(v, v, Len(v))

RECURSIVE SumSquaredDiffs(_, _, _)
SumSquaredDiffs(v1, v2, i) ==
    IF i = 0 THEN 0
    ELSE (v1[i] - v2[i]) * (v1[i] - v2[i]) + SumSquaredDiffs(v1, v2, i - 1)

Raised(e) == [raised |-> e, value |-> 0]

Returned(x) == [raised |-> "", value |-> x]

\* dot_product: checks the lengths, then sums the products
DotProductCall(v1, v2) ==
    IF Len(v1) # Len(v2) THEN Raised("ValueError")
    ELSE Returned(SumProducts(v1, v2, Len(v1)))

\* cosine_similarity: 0.0 for a zero vector, before dot_product is called;
\* the value is in units of 1e-4
CosineSimilarityCall(v1, v2) ==
    IF SquareSum(v1) = 0 \/ SquareSum(v2) = 0 THEN Returned(0)
    ELSE LET dp == DotProductCall(v1, v2)
             s == ISqrt(SquareSum(v1) * SquareSum(v2) * 10000)
             q == ((IF dp.value < 0 THEN -dp.value ELSE dp.value) * 1000000)
                     \div s
         IN  IF dp.raised # "" THEN dp
             ELSE Returned(IF dp.value < 0 THEN -q ELSE q)

\* euclidean_distance: checks the lengths itself; the value is in hundredths
EuclideanDistanceCall(v1, v2) ==
    IF Len(v1) # Len(v2) THEN Raised("ValueError")
    ELSE Returned(ISqrt(SumSquaredDiffs(v1, v2, Len(v1)) * 10000))

MathFrame ==
    UNCHANGED << impl, all_nodes, topo_ops, topo_last, answer, node_vars,
                 route_vars, faults, trust_ops, monitor_vars, load_vars, gateway_vars, extra_vars,
                 obs_log, observability >>

CallCosineSimilarity(v1, v2) ==
    /\ call' = [fn |-> "cosine_similarity", v1 |-> v1, v2 |-> v2,
                outcome |-> CosineSimilarityCall(v1, v2)]
    /\ MathFrame

CallEuclideanDistance(v1, v2) ==
    /\ call' = [fn |-> "euclidean_distance", v1 |-> v1, v2 |-> v2,
                outcome |-> EuclideanDistanceCall(v1, v2)]
    /\ MathFrame

MathNext ==
    \/ \E v1, v2 \in MathVectors : CallCosineSimilarity(v1, v2)
    \/ \E v1, v2 \in MathVectors : CallEuclideanDistance(v1, v2)

SpecMath == SelectInit /\ [][MathNext]_vars

\* C27: for every two vectors of different length cosine_similarity and
\* euclidean_distance raise ValueError and return no value.
MismatchRaises ==
    (call.fn \in {"cosine_similarity", "euclidean_distance"}
        /\ Len(call.v1) # Len(call.v2))
        => call.outcome.raised = "ValueError"

\* ------------------------------------------------------------------------
\*  Gateway entry control (gateway.py)
\* ------------------------------------------------------------------------

NONCE_WINDOW_SECONDS == 60

\* Gateway._window_seconds
WINDOW_SECONDS == 60

\* TRUST_BLOCK_THRESHOLD = 0.2, in hundredths
TRUST_BLOCK_THRESHOLD == 20

\* default severity of report_malicious_client (0.3), in hundredths
MALICIOUS_SEVERITY == 30

\* severities a node may report
Severities == { MALICIOUS_SEVERITY, 90 }

\* the clock advances in steps of TickSeconds up to MaxClock
TickSeconds == 80

MaxClock == 80

\* gateway operations (requests, reassignments, failures, reports, ticks)
MaxGatewayOps == 3

Timestamps == { t \in 0 .. MaxClock : t % TickSeconds = 0 }

Nonces == { "n1", "n2", "n3" }

Regions == { "eu", "us" }

\* a client id that was never registered
UnknownClient == "cx"

\* a gateway id the router has no Gateway for
UnknownGateway == "X"

\* generate_keypair: one fresh secret per owner
PrivateKey(owner) == "key_" \o owner

\* hashlib.sha256(raw).hexdigest(): no two inputs of the model collide, so a
\* digest is written as the string it digests
sha256(raw) == raw

\* HMAC-SHA256 of data under private_key: equal exactly when both are equal
sign(data, private_key) == [key |-> private_key, data |-> data]

verify(data, signature, private_key) == signature = sign(data, private_key)

hash_request(payload, nonce, timestamp) ==
    sha256(payload \o "|" \o nonce \o "|" \o ToString(timestamp))

\* the string both process_request and accept_request hash and sign
full_hash(req) ==
    sha256(req.client_id \o "|" \o req.gateway_id \o "|" \o req.payload
           \o "|" \o req.nonce \o "|" \o ToString(req.timestamp))

\* build_client_request(forge_signature=True): "forged_" + random hex
ForgedSignature == [key |-> "forged", data |-> ""]

\* build_client_request; override_gateway = "" stands for None
build_client_request(client_id, payload, region, timestamp, nonce, forge_signature, override_gateway) ==
    [client_id |-> client_id,
     gateway_id |-> IF override_gateway # "" THEN override_gateway
                    ELSE registry[client_id].assigned_gateway_id,
     timestamp |-> timestamp,
     nonce |-> nonce,
     payload |-> payload,
     signature_client |->
         IF forge_signature THEN ForgedSignature
         ELSE sign(hash_request(payload, nonce, timestamp),
                   PrivateKey(client_id)),
     signature_gateway |-> NoSignature,
     region |-> region]

\* what may arrive at a gateway: requests built for the registered client,
\* the same requests without a client signature, and requests that name
\* an unregistered client
RequestInputs ==
    LET built == { build_client_request(c, "p", region, ts, nonce, forge, g) :
                     c \in Clients, region \in Regions, ts \in Timestamps,
                     nonce \in Nonces, forge \in BOOLEAN, g \in GatewayIds }
    IN  built
        \cup { [r EXCEPT !.signature_client = NoSignature] :
                 r \in { b \in built : b.region = "eu" /\ b.nonce = "n1" } }
        \cup { [r EXCEPT !.client_id = UnknownClient] :
                 r \in { b \in built : b.region = "eu" /\ b.nonce = "n1" } }

\* Gateway._check_format: the mandatory fields that are empty
check_format(req) ==
    { f \in { "client_id", "gateway_id", "nonce" } : req[f] = "" }
    \cup (IF req.signature_client = NoSignature THEN { "signature_client" }
          ELSE {})

\* Gateway._check_replay
check_replay(gw, client_id, nonce, timestamp, now) ==
    IF now - timestamp > NONCE_WINDOW_SECONDS
      THEN [ok |-> FALSE, reason |-> "expired_timestamp", gw |-> gw]
    ELSE IF nonce \in gw.nonce_cache[client_id]
      THEN [ok |-> FALSE, reason |-> "replayed_nonce", gw |-> gw]
    ELSE [ok |-> TRUE, reason |-> "ok",
          gw |-> [gw EXCEPT !.nonce_cache[client_id] = @ \cup { nonce }]]

\* a rate check that lets the request through when count equals limit
check_rate_one_more(gw, client_id, limit, now) ==
    LET rolled == IF now - gw.window_start > WINDOW_SECONDS
                    THEN [gw EXCEPT !.request_counts = [c \in Clients |-> 0],
                                    !.window_start = now]
                    ELSE gw
        count == rolled.request_counts[client_id]
    IN  IF count > limit
          THEN [ok |-> FALSE, reason |-> "rate_limit_exceeded", gw |-> rolled]
          ELSE [ok |-> TRUE, reason |-> "ok",
                gw |-> [rolled EXCEPT !.request_counts[client_id] = count + 1]]

\* Gateway._check_rate
check_rate(gw, client_id, limit, now) ==
    LET rolled == IF now - gw.window_start > WINDOW_SECONDS
                    THEN [gw EXCEPT !.request_counts = [c \in Clients |-> 0],
                                    !.window_start = now]
                    ELSE gw
        count == rolled.request_counts[client_id]
    IN  IF count >= limit
          THEN [ok |-> FALSE, reason |-> "rate_limit_exceeded", gw |-> rolled]
          ELSE [ok |-> TRUE, reason |-> "ok",
                gw |-> [rolled EXCEPT !.request_counts[client_id] = count + 1]]

Rejected(reason, gw) ==
    [accepted |-> FALSE, reason |-> reason, gw |-> gw, signed |-> NoRequest]

\* Gateway.process_request of gateway gateway_id, whose state is gw
process_request(gateway_id, gw, reg, req, now) ==
    IF ~gw.alive THEN Rejected("gateway_offline", gw)
    ELSE IF check_format(req) # {} THEN Rejected("missing_fields", gw)
    ELSE IF req.client_id \notin DOMAIN reg
      THEN Rejected("unregistered_client", gw)
    ELSE
    LET client == reg[req.client_id]
    IN  IF client.assigned_gateway_id # gateway_id
          THEN Rejected("wrong_gateway", gw)
        ELSE IF client.trust_score < TRUST_BLOCK_THRESHOLD
          THEN Rejected("client_blocked_low_trust", gw)
        ELSE IF ~verify(hash_request(req.payload, req.nonce, req.timestamp),
                        req.signature_client, PrivateKey(req.client_id))
          THEN Rejected("invalid_client_signature", gw)
        ELSE
        LET replay == check_replay(gw, req.client_id, req.nonce,
                                   req.timestamp, now)
        IN  IF ~replay.ok THEN Rejected(replay.reason, replay.gw)
            ELSE
            LET rate == check_rate(replay.gw, req.client_id,
                                   client.rate_limit, now)
            IN  IF ~rate.ok THEN Rejected(rate.reason, rate.gw)
                ELSE IF client.allowed_regions # {} /\ req.region # ""
                        /\ req.region \notin client.allowed_regions
                  THEN Rejected("region_not_allowed", rate.gw)
                ELSE [accepted |-> TRUE, reason |-> "accepted",
                      gw |-> rate.gw,
                      signed |-> [req EXCEPT !.signature_gateway =
                                     sign(full_hash(req),
                                          PrivateKey(gateway_id))]]

\* a router that verifies the signature but skips origin enforcement
accept_request_any_origin(reg, req) ==
    IF req.signature_gateway = NoSignature
      THEN [accepted |-> FALSE, reason |-> "no_gateway_signature"]
    ELSE IF req.gateway_id \notin GatewayIds
      THEN [accepted |-> FALSE, reason |-> "unknown_gateway"]
    ELSE IF req.signature_gateway
              # sign(full_hash(req), PrivateKey(req.gateway_id))
      THEN [accepted |-> FALSE, reason |-> "invalid_gateway_signature"]
    ELSE [accepted |-> TRUE, reason |-> "accepted"]

\* SecureRouter.accept_request; the router knows every gateway in GatewayIds
accept_request(reg, req) ==
    IF req.signature_gateway = NoSignature
      THEN [accepted |-> FALSE, reason |-> "no_gateway_signature"]
    ELSE IF req.gateway_id \notin GatewayIds
      THEN [accepted |-> FALSE, reason |-> "unknown_gateway"]
    ELSE IF req.signature_gateway
              # sign(full_hash(req), PrivateKey(req.gateway_id))
      THEN [accepted |-> FALSE, reason |-> "invalid_gateway_signature"]
    ELSE IF req.client_id \notin DOMAIN reg
      THEN [accepted |-> FALSE, reason |-> "unregistered_client"]
    ELSE IF reg[req.client_id].assigned_gateway_id # req.gateway_id
      THEN [accepted |-> FALSE, reason |-> "gateway_origin_mismatch"]
    ELSE [accepted |-> TRUE, reason |-> "accepted"]

GatewayFrame ==
    UNCHANGED << impl, all_nodes, topo_ops, topo_last, answer, node_vars,
                 route_vars, faults, trust_ops, monitor_vars, load_vars,
                 extra_vars, call, obs_log, observability >>

GatewayOp ==
    /\ gw_history.ops < MaxGatewayOps
    /\ GatewayFrame

AssignedGateway(client_id) ==
    IF client_id \in DOMAIN registry
      THEN registry[client_id].assigned_gateway_id
      ELSE ""

\* gateway g is handed req at the current time
ProcessRequest(g, req) ==
    LET out == process_request(g, gateways[g], registry, req, clock)
        began == out.gw.window_start # gateways[g].window_start
        counted == IF began THEN [c \in Clients |-> 0]
                            ELSE gw_history.in_window[g]
    IN  /\ GatewayOp
        /\ gateways' = [gateways EXCEPT ![g] = out.gw]
        /\ forwarded' = IF out.accepted THEN forwarded \cup { out.signed }
                                        ELSE forwarded
        /\ gw_last' = [fn |-> "process_request", gateway |-> g, req |-> req,
                       accepted |-> out.accepted, reason |-> out.reason,
                       assigned |-> AssignedGateway(req.client_id)]
        /\ gw_history' =
             [ops |-> gw_history.ops + 1,
              calls |-> gw_history.calls + 1,
              accepted |-> IF out.accepted
                             THEN gw_history.accepted
                                  \cup { << req.client_id, req.nonce >> }
                             ELSE gw_history.accepted,
              in_window |-> [gw_history.in_window EXCEPT ![g] =
                               IF out.accepted
                                 THEN [counted EXCEPT ![req.client_id] = @ + 1]
                                 ELSE counted]]
        /\ UNCHANGED << registry, clock >>

\* ClientRegistry.reassign_gateway
ReassignGateway(client_id, new_gateway_id) ==
    /\ GatewayOp
    /\ client_id \in DOMAIN registry
    /\ registry[client_id].assigned_gateway_id # new_gateway_id
    /\ registry' = [registry EXCEPT
                      ![client_id].assigned_gateway_id = new_gateway_id]
    /\ gw_history' = [gw_history EXCEPT !.ops = @ + 1]
    /\ UNCHANGED << gateways, clock, forwarded, gw_last >>

\* Gateway.report_malicious_client -> ClientRegistry.reduce_trust
ReportMaliciousClient(client_id, severity) ==
    /\ GatewayOp
    /\ client_id \in DOMAIN registry
    /\ registry[client_id].trust_score > 0
    /\ registry' = [registry EXCEPT ![client_id].trust_score =
                      IF @ - severity > 0 THEN @ - severity ELSE 0]
    /\ gw_history' = [gw_history EXCEPT !.ops = @ + 1]
    /\ UNCHANGED << gateways, clock, forwarded, gw_last >>

\* Gateway.fail
GatewayFail(g) ==
    /\ GatewayOp
    /\ gateways[g].alive
    /\ gateways' = [gateways EXCEPT ![g].alive = FALSE]
    /\ gw_history' = [gw_history EXCEPT !.ops = @ + 1]
    /\ UNCHANGED << registry, clock, forwarded, gw_last >>

\* Gateway.recover
GatewayRecover(g) ==
    /\ GatewayOp
    /\ ~gateways[g].alive
    /\ gateways' = [gateways EXCEPT ![g].alive = TRUE]
    /\ gw_history' = [gw_history EXCEPT !.ops = @ + 1]
    /\ UNCHANGED << registry, clock, forwarded, gw_last >>

\* time.time() moves on
Tick ==
    /\ GatewayOp
    /\ clock < MaxClock
    /\ clock' = clock + TickSeconds
    /\ gw_history' = [gw_history EXCEPT !.ops = @ + 1]
    /\ UNCHANGED << registry, gateways, forwarded, gw_last >>

\* what may arrive at the router: what a gateway returned, the same with
\* the gateway signature removed, replaced or taken from another request,
\* with a field changed, and a client request sent past the gateways
RouterInputs ==
    forwarded
    \cup { [r EXCEPT !.signature_gateway = s] :
             r \in forwarded,
             s \in { NoSignature, ForgedSignature }
                   \cup { f.signature_gateway : f \in forwarded } }
    \cup { [r EXCEPT !.gateway_id = g] :
             r \in forwarded, g \in GatewayIds \cup { UnknownGateway } }
    \cup { [r EXCEPT !.payload = "q"] : r \in forwarded }
    \cup { r \in RequestInputs :
             r.nonce = "n1" /\ r.timestamp = 0 /\ r.region = "eu" }

\* the router is handed req
AcceptRequest(req) ==
    /\ GatewayFrame
    /\ gw_last' = [fn |-> "accept_request", gateway |-> "", req |-> req,
                   accepted |-> accept_request(registry, req).accepted,
                   reason |-> accept_request(registry, req).reason,
                   assigned |-> AssignedGateway(req.client_id)]
    /\ UNCHANGED << registry, gateways, clock, forwarded, gw_history >>

GatewayInit ==
    /\ Init
    /\ impl = "avrs"
    /\ neighbors = NeighborLists(Pairs)

GatewayNext ==
    \/ \E g \in GatewayIds, req \in RequestInputs : ProcessRequest(g, req)
    \/ \E g \in GatewayIds : ReassignGateway("c1", g)
    \/ \E severity \in Severities : ReportMaliciousClient("c1", severity)
    \/ \E g \in GatewayIds : GatewayFail(g)
    \/ \E g \in GatewayIds : GatewayRecover(g)
    \/ Tick
    \/ \E req \in RouterInputs : AcceptRequest(req)

SpecGateway == GatewayInit /\ [][GatewayNext]_vars

\* C28: once Gateway.process_request has accepted a request with some
\* client_id and nonce, no gateway accepts a later request with the same
\* client_id and nonce, also after reassign_gateway has moved the client
NoReplayAccepted ==
    [][(gw_history'.calls # gw_history.calls /\ gw_last'.accepted)
         => << gw_last'.req.client_id, gw_last'.req.nonce >>
                \notin gw_history.accepted]_vars

\* the five fields a gateway signature covers
SignedFields(req) ==
    << req.client_id, req.gateway_id, req.payload, req.nonce, req.timestamp >>

\* C29: SecureRouter.accept_request accepts a request only if the request
\* names a known gateway, carries that gateway's signature over its
\* (client_id, gateway_id, payload, nonce, timestamp), a signature that the
\* gateway produced for exactly these fields, and that gateway is the one the
\* client is assigned to when the router is called; so an unsigned request, a
\* changed signature or field, and a request signed by a gateway the client
\* has left are all rejected
RouterAcceptsOnlySigned ==
    (gw_last.fn = "accept_request" /\ gw_last.accepted) =>
        LET req == gw_last.req
        IN  /\ req.gateway_id \in GatewayIds
            /\ req.signature_gateway # NoSignature
            /\ req.signature_gateway
                   = sign(full_hash(req), PrivateKey(req.gateway_id))
            /\ \E f \in forwarded :
                  /\ SignedFields(f) = SignedFields(req)
                  /\ f.signature_gateway = req.signature_gateway
            /\ gw_last.assigned = req.gateway_id

\* the router has accepted a request signed by gateway B, to which the client
\* was moved, while a request signed by the former gateway A is also around
RouterAcceptsOnlySignedWitness ==
    /\ gw_last.fn = "accept_request"
    /\ gw_last.accepted
    /\ gw_last.req.signature_gateway.key = PrivateKey("B")
    /\ \E f \in forwarded : f.signature_gateway.key = PrivateKey("A")

\* gateway g has just returned from process_request
ProcessedBy(g) ==
    /\ gw_history'.calls # gw_history.calls
    /\ gw_last'.gateway = g

\* C30: within one rate window a gateway accepts at most rate_limit requests
\* of a client: the number it has accepted since its window began never
\* exceeds the client's rate_limit, and once that number has reached
\* rate_limit every further request of the client that the gateway handles
\* in the same window is rejected
RateLimitHolds ==
    [][\A g \in GatewayIds, c \in Clients :
          /\ gw_history'.in_window[g][c] <= registry'[c].rate_limit
          /\ (/\ ProcessedBy(g)
              /\ gw_last'.req.client_id = c
              /\ gateways'[g].window_start = gateways[g].window_start
              /\ gw_history.in_window[g][c] >= registry[c].rate_limit)
             => ~gw_last'.accepted]_vars

\* gateway A accepted rate_limit requests of the client in its first window
\* and has rejected the next one, in the same window, for the rate
RateLimitHoldsWitness ==
    /\ gw_history.in_window["A"]["c1"] = registry["c1"].rate_limit
    /\ gw_last.fn = "process_request"
    /\ gw_last.gateway = "A"
    /\ gw_last.reason = "rate_limit_exceeded"
    /\ gateways["A"].window_start = 0
    /\ clock <= WINDOW_SECONDS

\* C40: a request that Gateway.process_request rejects leaves the gateway's
\* replay and rate-limit state as it was: its nonce is not added to the
\* nonce cache and the client's request count does not grow, whatever the
\* reason of the rejection
RejectionLeavesNoTrace ==
    [][\A g \in GatewayIds :
          (ProcessedBy(g) /\ ~gw_last'.accepted /\ gw_last'.req.client_id \in Clients)
          => LET c == gw_last'.req.client_id
             IN  /\ gateways'[g].nonce_cache[c] = gateways[g].nonce_cache[c]
                 /\ gateways'[g].request_counts[c]
                        <= gateways[g].request_counts[c]]_vars

\* ------------------------------------------------------------------------
\*  Returned routes
\* ------------------------------------------------------------------------
\* C33: in every returned path each hop goes to a direct neighbor: for every
\* two consecutive node ids a, b of the path, b is in a's neighbor list,
\* whichever branch (cache, greedy, fallback, face routing, self-heal)
\* produced the hop
HopsAreNeighbors ==
    pc = "returned" =>
        \A i \in 1 .. Len(result.path) - 1 :
            result.path[i + 1] \in Range(neighbors[result.path[i]])

\* C35: in every returned result with a non-empty path final_node_id is the
\* last element of the path, however the route ended
FinalNodeEndsPath ==
    (pc = "returned" /\ result.path # << >>) =>
        result.final_node_id = result.path[Len(result.path)]

\* C36: in every returned result total_hops is the number of node ids in
\* the path, however the route ended
TotalHopsCountsPath ==
    pc = "returned" => result.total_hops = Len(result.path)

\* ------------------------------------------------------------------------
\*  The Simulator with an engine built with a larger max_hops
\* ------------------------------------------------------------------------
\* nodes 3, 2 and 1 lie on one line, in this order
LinePositions == << <<-3, 0>>, <<-3, -2>>, <<-3, -3>>, <<3, 3>> >>

\* every pair of nodes is joined but 1 and 2
LineTopology == Pairs \ { {1, 2} }

LongInit ==
    /\ NetInitIn({LineTopology})
    /\ impl = "simulator"
    /\ AuxStart
    /\ obs_log = EmptyLog(DEFAULT_MAX_HISTORY)
    /\ max_hops = MAX_HOPS + 1
    /\ vector = LinePositions

LongNext ==
    \/ \E start \in Nodes, t \in Targets : SimStartRoute(start, t)
    \/ SimRouteStep
    \/ \E n \in Nodes : Fail(n)
    \/ \E n \in Nodes : Recover(n)

SpecLong == LongInit /\ [][LongNext]_vars

\* ------------------------------------------------------------------------
\*  The reroute counter of Observability (avrs/observability.py)
\* ------------------------------------------------------------------------
\* C37: total_reroutes is the sum of reroute_count over the completed routes,
\* each reroute counted once; when one route has completed, the sum is that
\* route's reroute_count.
ReroutesCountedOnce ==
    (impl = "avrs" /\ routes = 1 /\ pc = "returned")
        => observability.total_reroutes = result.reroute_count

\* ------------------------------------------------------------------------
\*  Routes of the Simulator to one target on a network at rest
\* ------------------------------------------------------------------------
\* a route to the target of the routes before it
SteadyStartRoute(start, t) ==
    /\ routes = 0 \/ t = request.target_vector
    /\ SimStartRoute(start, t)

\* fail and recover between routes
SteadyFail(n) == pc # "running" /\ Fail(n)

SteadyRecover(n) == pc # "running" /\ Recover(n)

SteadyInit == Init /\ impl = "simulator"

SteadyNext ==
    \/ \E start \in Nodes, t \in Targets : SteadyStartRoute(start, t)
    \/ SimRouteStep
    \/ \E n \in Nodes : SteadyFail(n)
    \/ \E n \in Nodes : SteadyRecover(n)

SpecSteady == SteadyInit /\ [][SteadyNext]_vars

\* C34: in Simulator.route_request, when no alive flag changes while the
\* route runs and the cache entries were written by earlier routes to the
\* same target, every hop goes to a node strictly closer to the target: the
\* fallback and face branches are never taken and reroute_count stays 0.
SteadyRoutesDescend ==
    /\ result.reroute_count = 0
    /\ \A i \in 1 .. Len(result.hops) :
          result.hops[i].chosen_next # None =>
             /\ result.hops[i].method \in {"cache", "greedy"}
             /\ Closer(result.hops[i].chosen_next, result.hops[i].node_id,
                       request.target_vector)

\* a second route took a cached hop and a greedy hop past a dead node
SteadyRoutesDescendWitness ==
    /\ pc = "returned"
    /\ routes = 2
    /\ \E n \in Nodes : ~alive[n]
    /\ \E i, j \in 1 .. Len(result.hops) :
          /\ result.hops[i].method = "cache"
          /\ result.hops[j].method = "greedy"

\* ------------------------------------------------------------------------
\*  semantic_pool.py: load-aware selection and the role pools
\* ------------------------------------------------------------------------
MaxPoolOps == 5

\* SemanticNode.trust of every node, in hundredths
SEMANTIC_TRUST == 100

SemanticTargets == { <<0, 0>>, <<3, 3>> }

Strategies == { "best_score", "round_robin" }

\* the candidate lists select_best_candidate is called with on its own
CandidateLists == { << >>, << 1, 2 >>, << 3, 4 >>, << 1, 2, 3, 4 >> }

is_overloaded(n) == semantic_nodes[n].load >= overload_threshold[n]

\* 0.5 * (1 - min(dist / 4, 1)) - 0.3 * min(load / 20, 1) + 0.2 * trust,
\* in units of 1/4000 with the distance in hundredths
score_candidate(n, t) ==
    5 * (400 - Min(euclidean_distance(semantic_vector[n], t), 400))
    - 60 * Min(semantic_nodes[n].load, 20)
    + 8 * SEMANTIC_TRUST

\* a selection that scores every candidate, dead ones too
select_best_candidate_any(candidates, t) ==
    IF candidates = << >> THEN None
    ELSE SortDesc(candidates,
                  [n \in SemanticIds |-> score_candidate(n, t)])[1]

select_best_candidate(candidates, t) ==
    LET fit == SelectSeq(candidates,
                  LAMBDA n : semantic_nodes[n].alive /\ ~is_overloaded(n))
        viable == IF fit = << >>
                    THEN SelectSeq(candidates,
                                   LAMBDA n : semantic_nodes[n].alive)
                    ELSE fit
    IN  IF viable = << >> THEN None
        ELSE SortDesc(viable,
                      [n \in SemanticIds |-> score_candidate(n, t)])[1]

\* a pool that keeps its dead nodes
get_pool_unfiltered(r) == semantic_pool._pools[r]

\* SemanticPool.get_pool
get_pool(r) ==
    SelectSeq(semantic_pool._pools[r], LAMBDA n : semantic_nodes[n].alive)

\* is there an alive candidate that is not overloaded
HasSpare(candidates) ==
    \E i \in 1 .. Len(candidates) :
       semantic_nodes[candidates[i]].alive /\ ~is_overloaded(candidates[i])

\* SemanticPool.select_from_pool up to the increment of the load: the node
\* selected and the round-robin counters afterwards
select_from_pool(r, t, strategy) ==
    LET pool == get_pool(r)
        rr == semantic_pool._round_robin_idx
    IN  IF pool = << >> THEN [selected |-> None, rr |-> rr]
        ELSE IF strategy = "round_robin"
          THEN LET fit == SelectSeq(pool, LAMBDA n : ~is_overloaded(n))
                   non_overloaded == IF fit = << >> THEN pool ELSE fit
                   idx == rr[r] % Len(non_overloaded)
               IN  [selected |-> non_overloaded[idx + 1],
                    rr |-> [rr EXCEPT ![r] = idx + 1]]
          ELSE [selected |-> select_best_candidate(pool, t), rr |-> rr]

\* SemanticNode.increment_load on the node a call selected
LoadAfter(n) ==
    IF n = None THEN semantic_nodes
    ELSE [semantic_nodes EXCEPT ![n].load = @ + 1]

PoolFrame ==
    UNCHANGED << impl, all_nodes, topo_ops, topo_last, answer, node_vars,
                 route_vars, faults, trust_ops, monitor_vars, load_vars,
                 gateway_vars, engine_vars, thread_vars, call, obs_log,
                 observability >>

PoolOp == pool_last.ops < MaxPoolOps

\* what a call leaves in the history
Selection(fn, r, strategy, failed, candidates, n, considered, reason) ==
    [fn |-> fn, ops |-> pool_last.ops + 1, role |-> r,
     strategy |-> strategy, failed |-> failed, candidates |-> candidates,
     selected |-> n,
     alive |-> IF n = None THEN FALSE ELSE semantic_nodes[n].alive,
     overloaded |-> IF n = None THEN FALSE ELSE is_overloaded(n),
     spare |-> HasSpare(considered), reason |-> reason]

SelectBestCandidate(candidates, t) ==
    /\ PoolOp
    /\ pool_last' = Selection("select_best_candidate", "", "", None,
                              candidates,
                              select_best_candidate(candidates, t),
                              candidates, "")
    /\ UNCHANGED << semantic_nodes, semantic_pool >>
    /\ PoolFrame

SelectFromPool(r, t, strategy) ==
    /\ PoolOp
    /\ LET sel == select_from_pool(r, t, strategy)
       IN  /\ semantic_pool' = [semantic_pool EXCEPT
                                  !._round_robin_idx = sel.rr]
           /\ semantic_nodes' = LoadAfter(sel.selected)
           /\ pool_last' = Selection("select_from_pool", r, strategy, None,
                                     << >>, sel.selected, get_pool(r), "")
    /\ PoolFrame

FailoverSelect(failed_node, t) ==
    /\ PoolOp
    /\ LET r == semantic_role[failed_node]
           pool == SelectSeq(get_pool(r), LAMBDA n : n # failed_node)
           selected == select_best_candidate(pool, t)
       IN  /\ semantic_nodes' = LoadAfter(selected)
           /\ pool_last' = Selection("failover_select", r, "", failed_node,
                                     << >>, selected, pool, "")
    /\ UNCHANGED semantic_pool
    /\ PoolFrame

RouteSemanticRequest(r, t, strategy) ==
    /\ PoolOp
    /\ LET available == get_pool(r)
           sel == select_from_pool(r, t, strategy)
           reason == IF available = << >> THEN "no_nodes_for_role"
                     ELSE IF sel.selected = None
                       THEN "all_nodes_unavailable"
                     ELSE ""
       IN  /\ semantic_pool' = [semantic_pool EXCEPT
                                  !._round_robin_idx = sel.rr]
           /\ semantic_nodes' = LoadAfter(sel.selected)
           /\ pool_last' = Selection("route_semantic_request", r, strategy,
                                     None, << >>, sel.selected, available,
                                     reason)
    /\ PoolFrame

\* the operations on a node: fail, recover, increment_load, reset_load
NodeOp(n, alive_after, load_after) ==
    /\ PoolOp
    /\ semantic_nodes' = [semantic_nodes EXCEPT
                            ![n] = [alive |-> alive_after,
                                    load |-> load_after]]
    /\ pool_last' = [pool_last EXCEPT !.ops = @ + 1]
    /\ UNCHANGED semantic_pool
    /\ PoolFrame

SemanticFail(n) ==
    /\ semantic_nodes[n].alive
    /\ NodeOp(n, FALSE, semantic_nodes[n].load)

SemanticRecover(n) ==
    /\ ~semantic_nodes[n].alive
    /\ NodeOp(n, TRUE, semantic_nodes[n].load)

IncrementLoad(n) ==
    /\ n \in SemanticIds
    /\ NodeOp(n, semantic_nodes[n].alive, semantic_nodes[n].load + 1)

ResetLoad(n) ==
    /\ semantic_nodes[n].load > 0
    /\ NodeOp(n, semantic_nodes[n].alive, 0)

PoolNext ==
    \/ \E c \in CandidateLists, t \in SemanticTargets :
          SelectBestCandidate(c, t)
    \/ \E r \in SemanticRoles, t \in SemanticTargets, st \in Strategies :
          SelectFromPool(r, t, st)
    \/ \E n \in SemanticIds, t \in SemanticTargets : FailoverSelect(n, t)
    \/ \E r \in SemanticRoles, t \in SemanticTargets, st \in Strategies :
          RouteSemanticRequest(r, t, st)
    \/ \E n \in SemanticIds : SemanticFail(n)
    \/ \E n \in SemanticIds : SemanticRecover(n)
    \/ \E n \in SemanticIds : IncrementLoad(n)
    \/ \E n \in SemanticIds : ResetLoad(n)

PoolInit ==
    /\ Init
    /\ impl = "simulator"
    /\ neighbors = NeighborLists(Pairs)

SpecPool == PoolInit /\ [][PoolNext]_vars

PoolCalls == { "select_from_pool", "failover_select", "route_semantic_request" }

\* C31: route_semantic_request, select_from_pool and failover_select return
\* only an alive node whose role is the requested role; failover_select
\* returns a node with the role of the failed node and never the failed node.
NeverWrongRole ==
    (pool_last.fn \in PoolCalls /\ pool_last.selected # None) =>
        /\ pool_last.alive
        /\ semantic_role[pool_last.selected] = pool_last.role
        /\ pool_last.fn = "failover_select" =>
              /\ pool_last.selected # pool_last.failed
              /\ pool_last.role = semantic_role[pool_last.failed]

\* a failover from a dead node returned another node while a third node of
\* the role was dead too
NeverWrongRoleWitness ==
    /\ pool_last.fn = "failover_select"
    /\ pool_last.selected # None
    /\ ~semantic_nodes[pool_last.failed].alive
    /\ \E n \in SemanticIds :
          /\ n # pool_last.failed
          /\ semantic_role[n] = pool_last.role
          /\ ~semantic_nodes[n].alive

\* C32 (as claimed): select_best_candidate and select_from_pool, with either
\* strategy, never return a node for which is_overloaded() is true.
NeverOverloaded ==
    (pool_last.fn \in {"select_best_candidate", "select_from_pool"}
       /\ pool_last.selected # None)
        => ~pool_last.overloaded

\* C32 (amended): when some alive candidate is not overloaded, the node
\* returned is not overloaded; an overloaded node is returned only when
\* every alive candidate is overloaded.
OverloadedOnlyWithoutSpare ==
    (pool_last.fn \in {"select_best_candidate", "select_from_pool"}
       /\ pool_last.spare)
        => /\ pool_last.selected # None
           /\ ~pool_last.overloaded

\* round robin passed over an overloaded alive node of the pool
OverloadedOnlyWithoutSpareWitness ==
    /\ pool_last.fn = "select_from_pool"
    /\ pool_last.strategy = "round_robin"
    /\ pool_last.spare
    /\ pool_last.selected # None
    /\ \E n \in SemanticIds :
          /\ semantic_role[n] = pool_last.role
          /\ n # pool_last.selected
          /\ semantic_nodes[n].alive
          /\ is_overloaded(n)

\* ------------------------------------------------------------------------
\*  avrs/health_monitor.py: the monitor loop as threads
\* ------------------------------------------------------------------------
\* bound on the probes of all monitor threads together
MaxLoopProbes == 6

ThreadFrame ==
    UNCHANGED << impl, all_nodes, topo_ops, topo_last, answer, neighbors,
                 load, trust, route_cache, pc, request, target_role, current,
                 visited, step, result, routes, faults, trust_ops, streak,
                 last_probe, load_vars, gateway_vars, engine_vars, pool_vars,
                 call, obs_log, observability >>

NodeFrame == UNCHANGED << alive, failed_before, failure_counts, probes >>

\* the first thread not yet created
NextThread ==
    IF \E th \in ThreadIds : threads[th].pc = "unborn"
      THEN CHOOSE th \in ThreadIds :
              /\ threads[th].pc = "unborn"
              /\ \A other \in ThreadIds :
                    threads[other].pc = "unborn" => th <= other
      ELSE None

\* HealthMonitor.start (lines 56-64)
Start ==
    /\ caller = "idle"
    /\ IF monitor._running
         THEN UNCHANGED << monitor, threads >>
         ELSE /\ NextThread # None
              /\ monitor' = [_running |-> TRUE, _thread |-> NextThread]
              /\ threads' = [threads EXCEPT ![NextThread].pc = "top"]
    /\ UNCHANGED caller
    /\ NodeFrame
    /\ ThreadFrame

\* HealthMonitor.stop up to the join (lines 68-70)
StopBegin ==
    /\ caller = "idle"
    /\ monitor' = [monitor EXCEPT !._running = FALSE]
    /\ caller' = IF monitor._thread # None THEN "joining" ELSE "idle"
    /\ UNCHANGED threads
    /\ NodeFrame
    /\ ThreadFrame

\* self._thread.join(timeout=5.0) returns: the thread has ended, or 5 s
\* have passed and the thread is still in time.sleep(poll_interval)
JoinReturns(timed_out) ==
    \/ threads[monitor._thread].pc = "done"
    \/ timed_out /\ threads[monitor._thread].pc = "sleep"

StopReturn(timed_out) ==
    /\ caller = "joining"
    /\ JoinReturns(timed_out)
    /\ caller' = "idle"
    /\ UNCHANGED << monitor, threads >>
    /\ NodeFrame
    /\ ThreadFrame

\* _monitor_loop: `while self._running` (line 75)
LoopTop(th) ==
    /\ threads[th].pc = "top"
    /\ threads' = [threads EXCEPT
                     ![th] = IF monitor._running
                               THEN [pc |-> "probe", idx |-> 1,
                                     health_ok |-> FALSE]
                               ELSE [pc |-> "done", idx |-> 0,
                                     health_ok |-> FALSE]]
    /\ UNCHANGED << monitor, caller >>
    /\ NodeFrame
    /\ ThreadFrame

\* _simulate_health_check (lines 128-152): what the probe answers is the
\* alive flag it read
ProbeAnswer(th, n) == alive[n]

\* _check_node_health up to the lock (line 101): the probe, outside the lock
SimulateHealthCheck(th) ==
    /\ threads[th].pc = "probe"
    /\ probes < MaxLoopProbes
    /\ probes' = probes + 1
    /\ threads' = [threads EXCEPT
                     ![th].pc = "apply",
                     ![th].health_ok = ProbeAnswer(th, all_nodes[threads[th].idx])]
    /\ UNCHANGED << monitor, caller, alive, failed_before, failure_counts >>
    /\ ThreadFrame

\* _check_node_health under the lock (lines 103-116), then the next node of
\* _check_all_nodes, or time.sleep(poll_interval) after the last one
ApplyHealth(th) ==
    /\ threads[th].pc = "apply"
    /\ LET n == all_nodes[threads[th].idx]
           health_ok == threads[th].health_ok
       IN  IF health_ok
             THEN /\ failure_counts' = [failure_counts EXCEPT ![n] = 0]
                  /\ alive' = AliveAfterSuccess(n)
                  /\ failed_before' = IF alive[n] THEN failed_before
                                      ELSE failed_before \ {n}
             ELSE LET failures == failure_counts[n] + 1
                  IN  /\ failure_counts' =
                            [failure_counts EXCEPT ![n] = failures]
                      /\ alive' = IF MarksDead(failures) /\ alive[n]
                                    THEN [alive EXCEPT ![n] = FALSE]
                                    ELSE alive
                      /\ failed_before' = failed_before
    /\ threads' = [threads EXCEPT
                     ![th] = IF threads[th].idx < Len(all_nodes)
                               THEN [pc |-> "probe", idx |-> @.idx + 1,
                                     health_ok |-> FALSE]
                               ELSE [pc |-> "sleep", idx |-> 0,
                                     health_ok |-> FALSE]]
    /\ UNCHANGED << monitor, caller, probes >>
    /\ ThreadFrame

\* time.sleep(poll_interval) is over (line 81)
Wake(th) ==
    /\ threads[th].pc = "sleep"
    /\ threads' = [threads EXCEPT ![th].pc = "top"]
    /\ UNCHANGED << monitor, caller >>
    /\ NodeFrame
    /\ ThreadFrame

ThreadsNext ==
    \/ Start
    \/ StopBegin
    \/ \E timed_out \in BOOLEAN : StopReturn(timed_out)
    \/ \E th \in ThreadIds : LoopTop(th)
    \/ \E th \in ThreadIds : SimulateHealthCheck(th)
    \/ \E th \in ThreadIds : ApplyHealth(th)
    \/ \E th \in ThreadIds : Wake(th)
    \/ \E n \in Nodes : Fail(n)
    \/ \E n \in Nodes : Recover(n)

SpecThreads == MonitorInit /\ [][ThreadsNext]_vars

\* C38: with the simulated probe no interleaving of the monitor's checks
\* with the operator's fail and recover lets the monitor change a node's
\* alive flag: a step of a monitor thread leaves every alive flag as it was.
MonitorLeavesAlive ==
    [][threads' # threads => alive' = alive]_vars

\* C39: at most one monitor loop is active at any time, after any sequence
\* of start() and stop() calls: no two _monitor_loop threads are inside
\* their health checks together.
AtMostOneLoopChecks ==
    Cardinality({ th \in ThreadIds : threads[th].pc \in {"probe", "apply"} })
        <= 1

====
